---- MODULE Spec2Model ----
(***************************************************************************)
(* A model of the canary SDK (backend/src): the transaction builder of     *)
(* transaction.rs and the contract helpers of canary.rs, run against a     *)
(* remote ledger that other parties change between any two RPCs.           *)
(*                                                                         *)
(* Every await of the source is one action: the request is answered from   *)
(* the ledger state of that moment (or fails in transport), and the code   *)
(* up to the next await runs with it.                                      *)
(***************************************************************************)
EXTENDS Integers, Sequences, FiniteSets, TLC

(***************************************************************************)
(* Bounds of the model.                                                    *)
(***************************************************************************)
\* longest operation queue a builder is given
MaxOps == 2
\* highest version an object of the ledger reaches
MaxVersion == 2

\* longest return buffer a simulation answers with
MaxBuffer == 34

(***************************************************************************)
(* Option<T>: None is the empty sequence, Some(x) the sequence of x.       *)
(***************************************************************************)
None == <<>>

Some(x) == <<x>>

IsSome(o) == Len(o) = 1

Unwrap(o) == o[1]

(***************************************************************************)
(* u64, kept at its width: four 16-bit limbs, most significant first.      *)
(***************************************************************************)
Base == 65536

U64Of(n) == <<0, 0, n \div Base, n % Base>>

U64Max == <<Base - 1, Base - 1, Base - 1, Base - 1>>

U64Lt(x, y) ==
    \E i \in 1..4 : x[i] < y[i] /\ \A j \in 1..(i - 1) : x[j] = y[j]

U64Le(x, y) == x = y \/ U64Lt(x, y)

\* x + y modulo 2^64, and whether the true sum left the type
U64Add(x, y) ==
    LET s4 == x[4] + y[4]
        s3 == x[3] + y[3] + (s4 \div Base)
        s2 == x[2] + y[2] + (s3 \div Base)
        s1 == x[1] + y[1] + (s2 \div Base)
    IN  [val |-> <<s1 % Base, s2 % Base, s3 % Base, s4 % Base>>,
         overflow |-> s1 >= Base]

\* x - y modulo 2^64, and whether the true difference is negative
U64Sub(x, y) ==
    LET d4 == x[4] - y[4]
        b4 == IF d4 < 0 THEN 1 ELSE 0
        d3 == x[3] - y[3] - b4
        b3 == IF d3 < 0 THEN 1 ELSE 0
        d2 == x[2] - y[2] - b3
        b2 == IF d2 < 0 THEN 1 ELSE 0
        d1 == x[1] - y[1] - b2
    IN  [val |-> <<(d1 + Base) % Base, (d2 + Base) % Base,
                   (d3 + Base) % Base, (d4 + Base) % Base>>,
         overflow |-> d1 < 0]

\* floor(x / 5)
U64Div5(x) ==
    LET n1 == x[1]
        n2 == (n1 % 5) * Base + x[2]
        n3 == (n2 % 5) * Base + x[3]
        n4 == (n3 % 5) * Base + x[4]
    IN  <<n1 \div 5, n2 \div 5, n3 \div 5, n4 \div 5>>

(***************************************************************************)
(* Text: a string is the sequence of its characters.                       *)
(***************************************************************************)
Letters == {"a", "b", "c", "d", "e", "f", "g", "h", "i", "j", "k", "l", "m",
            "n", "o", "p", "q", "r", "s", "t", "u", "v", "w", "x", "y", "z",
            "A", "B", "C", "D", "E", "F", "G", "H", "I", "J", "K", "L", "M",
            "N", "O", "P", "Q", "R", "S", "T", "U", "V", "W", "X", "Y", "Z"}

Digits == {"0", "1", "2", "3", "4", "5", "6", "7", "8", "9"}

\* an identifier check that accepts every name that is not empty
is_nonempty(s) == Len(s) >= 1

\* Identifier::from_str accepts [a-zA-Z][a-zA-Z0-9_]* and _[a-zA-Z0-9_]+
is_valid_identifier(s) ==
    /\ Len(s) >= 1
    /\ \/ s[1] \in Letters
       \/ s[1] = "_" /\ Len(s) >= 2
    /\ \A i \in 2..Len(s) : s[i] \in Letters \cup Digits \cup {"_"}

(***************************************************************************)
(* The ledger's objects.                                                   *)
(***************************************************************************)
CoinA == "0xc01a"

CoinB == "0xc01b"

RegistryId == "0x4e9"

AdminCapId == "0xadc"

CanaryBlobId == "0xb10b"

\* the Clock object 0x6
ClockId == "0x6"

\* an identifier no object has
MissingId == "0xdead"

ObjectIDs == {CoinA, CoinB, RegistryId, AdminCapId, CanaryBlobId, MissingId}

signer == "signer"

\* (id, version, digest): the digest names the contents at that version
object_ref(id, objs) == <<id, objs[id].version, <<"digest", id, objs[id].version>>>>

VARIABLES
    \* ---- the remote ledger
    objects,          \* id -> [exists, version, owner, isv, type_]
    holdings,         \* the signer's SUI coins, in the order get_coins lists them
    ref_price,        \* the reference gas price
    \* ---- CanaryTransactionBuilder
    builder,          \* the queued operations of the ProgrammableTransactionBuilder
    gas_budget,       \* Option<u64>
    gas_object,       \* Option<ObjectID>
    \* ---- the call in progress
    stack,            \* the functions being run, outermost first
    pc,               \* the await the innermost one stands at
    loc,              \* its local variables
    result,           \* what the last call of the public interface returned
    callLog,          \* the requests the call has made, with their answers
    builds_since_add  \* build() calls begun since the queue last grew (history)

vars == <<objects, holdings, ref_price, builder,
          gas_budget, gas_object, stack, pc, loc, result, callLog,
          builds_since_add>>

ledger == <<objects, holdings, ref_price>>

pins == <<gas_budget, gas_object>>

(***************************************************************************)
(* Values of the program.                                                  *)
(***************************************************************************)
Min(a, b) == IF a < b THEN a ELSE b

\* ProgrammableTransactionBuilder::move_call: one MoveCall command
MoveCall(package, module, function, args) ==
    [kind |-> "MoveCall", package |-> package, module |-> module,
     function |-> function, type_arguments |-> <<>>, arguments |-> args]

\* ProgrammableTransactionBuilder::transfer_sui
TransferSui(recipient, amount) ==
    [kind |-> "TransferSui", recipient |-> recipient, amount |-> amount]

\* a build() that finishes a copy of the queue and leaves the queue in place
mem_replace_keeps(queue) == [taken |-> queue, left |-> queue]

\* std::mem::replace(&mut self.builder, ProgrammableTransactionBuilder::new()):
\* what is taken out and what is left in the field
mem_replace(queue) == [taken |-> queue, left |-> <<>>]

\* a finish that hands the commands out last first
finish_reversed(queue) == [i \in 1..Len(queue) |-> queue[Len(queue) + 1 - i]]

\* ProgrammableTransactionBuilder::finish
finish(queue) == queue

\* TransactionData::new_programmable
new_programmable(sender, gas_payment, pt, gas_price, budget) ==
    [sender |-> sender, gas_payment |-> gas_payment, pt |-> pt,
     gas_price |-> gas_price, gas_budget |-> budget]

\* Intent::sui_transaction()
sui_transaction == [scope |-> "TransactionData", version |-> "V0", app_id |-> "Sui"]

\* the locals of build() and execute(), before any is assigned
NoLocals ==
    [pt |-> None, first_gas |-> None, gas_object_ref |-> None,
     est_gas_price |-> None, temp_tx |-> None, estimated |-> None,
     gas_budget |-> None, transaction_data |-> None, signature |-> None]

\* what a call returned: `of` names the function of the public interface
NoResult == [of |-> "", done |-> FALSE, ok |-> FALSE, err |-> <<>>, value |-> None]

Ok(of, v) == [of |-> of, done |-> TRUE, ok |-> TRUE, err |-> <<>>, value |-> Some(v)]

Err(of, path) == [of |-> of, done |-> TRUE, ok |-> FALSE, err |-> path, value |-> None]

(***************************************************************************)
(* Inputs the callers and the remote are given.                            *)
(***************************************************************************)
\* the package the builder's direct callers call into
PackageId == "0xca11"

Recipient == "0xbeef"

\* names a caller passes to move_call: one valid, one empty, one malformed
Names == {<<"s", "u", "i">>, <<>>, <<"1", "x">>}

\* reference gas prices of the ledger's epochs
Prices == {750, 1000}

\* budgets a caller pins
PinBudgets == {U64Of(5000)}

\* objects a caller pins as gas object
PinObjects == {CoinB, MissingId}

\* cost summaries a dry run reports: computation, storage, rebate
GasSummaries ==
    {[computation_cost |-> U64Of(1000), storage_cost |-> U64Of(2007), storage_rebate |-> U64Of(500)],
     [computation_cost |-> U64Of(1000), storage_cost |-> U64Of(0), storage_rebate |-> U64Of(2000)],
     [computation_cost |-> U64Max, storage_cost |-> U64Of(0), storage_rebate |-> U64Of(0)]}

(***************************************************************************)
(* Returning from the call in progress.                                    *)
(***************************************************************************)
\* the contract helpers of canary.rs wrap a builder's error in CanaryError::Transaction
in_helper == Len(stack) > 0 /\ stack[1] \notin {"build", "execute"}

\* `?` on a TransactionError: every caller on the stack passes it up
fail(kind) ==
    /\ result' = Err(stack[1], IF in_helper THEN <<"Transaction", kind>> ELSE <<kind>>)
    /\ stack' = <<>>
    /\ pc' = "idle"

\* a panic unwinds the call; nothing is returned
panic ==
    /\ result' = Err(stack[1], <<"panic">>)
    /\ stack' = <<>>
    /\ pc' = "idle"

ret(v) ==
    /\ result' = Ok(stack[1], v)
    /\ stack' = <<>>
    /\ pc' = "idle"

(***************************************************************************)
(* CanaryTransactionBuilder: the calls that do not await.                  *)
(***************************************************************************)
move_call(package, module, function, args) ==
    /\ pc = "idle"
    /\ IF is_valid_identifier(module) /\ is_valid_identifier(function)
       THEN /\ Len(builder) < MaxOps
            /\ builder' = Append(builder, MoveCall(package, module, function, args))
            /\ result' = Ok("move_call", "self")
            /\ builds_since_add' = 0
       ELSE /\ result' = Err("move_call", <<"BuildError">>)
            /\ UNCHANGED <<builder, builds_since_add>>
    /\ callLog' = <<>>
    /\ loc' = NoLocals
    /\ UNCHANGED <<ledger, pins, stack, pc>>

transfer_sui(recipient, amount) ==
    /\ pc = "idle"
    /\ Len(builder) < MaxOps
    /\ builder' = Append(builder, TransferSui(recipient, Some(amount)))
    /\ result' = Ok("transfer_sui", "self")
    /\ builds_since_add' = 0
    /\ callLog' = <<>>
    /\ loc' = NoLocals
    /\ UNCHANGED <<ledger, pins, stack, pc>>

set_gas_budget(budget) ==
    /\ pc = "idle"
    /\ gas_budget' = Some(budget)
    /\ result' = Ok("set_gas_budget", "self")
    /\ callLog' = <<>>
    /\ loc' = NoLocals
    /\ UNCHANGED <<ledger, builder, gas_object, stack, pc,
                   builds_since_add>>

set_gas_object(id) ==
    /\ pc = "idle"
    /\ gas_object' = Some(id)
    /\ result' = Ok("set_gas_object", "self")
    /\ callLog' = <<>>
    /\ loc' = NoLocals
    /\ UNCHANGED <<ledger, builder, gas_budget, stack, pc,
                   builds_since_add>>

(***************************************************************************)
(* CanaryTransactionBuilder::build, one action for each await.             *)
(***************************************************************************)
\* build() up to its first await: the queue is taken and finished
\* build() up to its first await, on a builder whose queue is `queue`
build_queue(queue, builds, callers) ==
    LET r == mem_replace(queue)
    IN  /\ builder' = r.left
        /\ loc' = [NoLocals EXCEPT !.pt = Some(finish(r.taken))]
        /\ stack' = Append(callers, "build")
        /\ pc' = IF IsSome(gas_object) THEN "get_gas_object" ELSE "get_coins"
        /\ builds_since_add' = Min(builds + 1, 2)

build_enter(callers) == build_queue(builder, builds_since_add, callers)

\* a build() that takes the pins out of the builder as it takes the queue
build_taking_pins ==
    /\ pc = "idle"
    /\ build_enter(<<>>)
    /\ result' = NoResult
    /\ callLog' = <<>>
    /\ gas_budget' = None
    /\ gas_object' = None
    /\ UNCHANGED ledger

build ==
    /\ pc = "idle"
    /\ build_enter(<<>>)
    /\ result' = NoResult
    /\ callLog' = <<>>
    /\ UNCHANGED <<ledger, pins>>

\* a build() that refuses an empty operation list once it has its funding
gas_resolved_nonempty(ref) ==
    IF Unwrap(loc.pt) = <<>>
    THEN fail("BuildError") /\ UNCHANGED loc
    ELSE /\ loc' = [loc EXCEPT !.gas_object_ref = Some(ref), !.gas_budget = gas_budget]
         /\ pc' = IF IsSome(gas_budget) THEN "gas_price" ELSE "est_gas_price"
         /\ UNCHANGED <<stack, result>>

\* a build() that estimates the budget whether or not one is pinned
gas_resolved_estimating(ref) ==
    /\ loc' = [loc EXCEPT !.gas_object_ref = Some(ref), !.gas_budget = gas_budget]
    /\ pc' = "est_gas_price"
    /\ UNCHANGED <<stack, result>>

\* with the funding reference in hand the budget is the pin, or is estimated
gas_resolved(ref) ==
    /\ loc' = [loc EXCEPT !.gas_object_ref = Some(ref), !.gas_budget = gas_budget]
    /\ pc' = IF IsSome(gas_budget) THEN "gas_price" ELSE "est_gas_price"
    /\ UNCHANGED <<stack, result>>

\* get_object_with_options(id).into_object() and what the code does with it
get_gas_object(id) ==
    \E net_ok \in BOOLEAN :
        LET found == net_ok /\ objects[id].exists
        IN  /\ callLog' = Append(callLog,
                [ev |-> "get_object", ok |-> found, id |-> id,
                 ref |-> IF found THEN Some(object_ref(id, objects)) ELSE None])
            /\ IF found
               THEN gas_resolved(object_ref(id, objects))
               ELSE fail("BuildError") /\ UNCHANGED loc

build_get_gas_object ==
    /\ pc = "get_gas_object"
    /\ get_gas_object(Unwrap(gas_object))
    /\ UNCHANGED <<ledger, builder, pins, builds_since_add>>

\* a build() that takes the last listed coin
select_gas_last(coins) == coins[Len(coins)]

\* the coin build() funds the payload with, of the listed ones
select_gas(coins) == coins[1]

\* a build() that reports an empty holdings list as a plain build error
got_coins_no_kind(net_ok, data) ==
    IF ~net_ok \/ data = <<>>
    THEN fail("BuildError") /\ UNCHANGED loc
    ELSE /\ loc' = [loc EXCEPT !.first_gas = Some(select_gas(data))]
         /\ pc' = "get_first_gas"
         /\ UNCHANGED <<stack, result>>

\* what build() does with the answer of get_coins
got_coins(net_ok, data) ==
    IF ~net_ok
    THEN fail("BuildError") /\ UNCHANGED loc
    ELSE IF data = <<>>
    THEN fail("InsufficientGas") /\ UNCHANGED loc
    ELSE /\ loc' = [loc EXCEPT !.first_gas = Some(select_gas(data))]
         /\ pc' = "get_first_gas"
         /\ UNCHANGED <<stack, result>>

build_get_coins ==
    /\ pc = "get_coins"
    /\ \E net_ok \in BOOLEAN :
        /\ callLog' = Append(callLog,
              [ev |-> "get_coins", ok |-> net_ok, owner |-> signer,
               data |-> IF net_ok THEN holdings ELSE <<>>])
        /\ got_coins(net_ok, holdings)
    /\ UNCHANGED <<ledger, builder, pins, builds_since_add>>

build_get_first_gas ==
    /\ pc = "get_first_gas"
    /\ get_gas_object(Unwrap(loc.first_gas))
    /\ UNCHANGED <<ledger, builder, pins, builds_since_add>>

\* the placeholder budget of the estimation transaction
EstimationBudget == U64Of(10000000)

build_est_gas_price ==
    /\ pc = "est_gas_price"
    /\ \E net_ok \in BOOLEAN :
        /\ callLog' = Append(callLog,
              [ev |-> "gas_price", ok |-> net_ok,
               price |-> IF net_ok THEN Some(ref_price) ELSE None])
        /\ IF ~net_ok
           THEN fail("BuildError") /\ UNCHANGED loc
           ELSE /\ loc' = [loc EXCEPT
                     !.est_gas_price = Some(ref_price),
                     !.temp_tx = Some(new_programmable(signer, <<Unwrap(loc.gas_object_ref)>>,
                                        Unwrap(loc.pt), ref_price, EstimationBudget))]
                /\ pc' = "dry_run"
                /\ UNCHANGED <<stack, result>>
    /\ UNCHANGED <<ledger, builder, pins, builds_since_add>>

\* estimate_gas: computation_cost + storage_cost - storage_rebate in u64
gas_cost(summary) ==
    LET sum == U64Add(summary.computation_cost, summary.storage_cost)
        net == U64Sub(sum.val, summary.storage_rebate)
    IN  [val |-> net.val, overflow |-> sum.overflow \/ net.overflow]

\* estimated + (estimated / 5) in u64
with_buffer(estimated) == U64Add(estimated, U64Div5(estimated))

build_estimate_gas ==
    /\ pc = "dry_run"
    /\ \E net_ok \in BOOLEAN, overflow_checks \in BOOLEAN, summary \in GasSummaries :
        LET est == gas_cost(summary)
            bud == with_buffer(est.val)
        IN  /\ callLog' = Append(callLog,
                  [ev |-> "dry_run", ok |-> net_ok, tx |-> loc.temp_tx,
                   summary |-> IF net_ok THEN Some(summary) ELSE None])
            /\ IF ~net_ok
               THEN fail("BuildError") /\ UNCHANGED loc
               ELSE IF overflow_checks /\ est.overflow
               THEN panic /\ UNCHANGED loc
               ELSE IF overflow_checks /\ bud.overflow
               THEN panic /\ loc' = [loc EXCEPT !.estimated = Some(est.val)]
               ELSE /\ loc' = [loc EXCEPT !.estimated = Some(est.val),
                                          !.gas_budget = Some(bud.val)]
                    /\ pc' = "gas_price"
                    /\ UNCHANGED <<stack, result>>
    /\ UNCHANGED <<ledger, builder, pins, builds_since_add>>

\* the last await of build(): the payload is made and returned to the caller
build_gas_price ==
    /\ pc = "gas_price"
    /\ \E net_ok \in BOOLEAN :
        LET transaction_data ==
                new_programmable(signer, <<Unwrap(loc.gas_object_ref)>>, Unwrap(loc.pt),
                                 ref_price, Unwrap(loc.gas_budget))
        IN  /\ callLog' = Append(callLog,
                  [ev |-> "gas_price", ok |-> net_ok,
                   price |-> IF net_ok THEN Some(ref_price) ELSE None])
            /\ IF ~net_ok
               THEN fail("BuildError") /\ UNCHANGED loc
               ELSE /\ loc' = [loc EXCEPT !.transaction_data = Some(transaction_data)]
                    /\ IF Len(stack) = 1
                       THEN ret(transaction_data)
                       ELSE /\ stack' = SubSeq(stack, 1, Len(stack) - 1)
                            /\ pc' = "sign"
                            /\ UNCHANGED result
    /\ UNCHANGED <<ledger, builder, pins, builds_since_add>>

(***************************************************************************)
(* CanaryTransactionBuilder::execute: build, sign, submit.                 *)
(***************************************************************************)
execute_enter(callers) == build_enter(Append(callers, "execute"))

execute ==
    /\ pc = "idle"
    /\ execute_enter(<<>>)
    /\ result' = NoResult
    /\ callLog' = <<>>
    /\ UNCHANGED <<ledger, pins>>

\* keystore.sign_secure(&self.signer, &transaction_data, intent)
sign_secure(address, data, intent) ==
    [signer |-> address, data |-> data, intent |-> intent]

\* an execute() that signs the payload at the placeholder budget
signed_data_placeholder(transaction_data) ==
    [transaction_data EXCEPT !.gas_budget = U64Of(10000000)]

\* what is signed, of the payload build() returned
signed_data(transaction_data) == transaction_data

\* an execute() that goes on to submit whatever signing answered
signed_unchecked(sign_ok, signature) ==
    /\ loc' = [loc EXCEPT !.signature = Some(signature)]
    /\ pc' = "submit"
    /\ UNCHANGED <<stack, result>>

\* what execute() does with the answer of sign_secure
signed(sign_ok, signature) ==
    IF ~sign_ok
    THEN fail("BuildError") /\ UNCHANGED loc
    ELSE /\ loc' = [loc EXCEPT !.signature = Some(signature)]
         /\ pc' = "submit"
         /\ UNCHANGED <<stack, result>>

execute_sign ==
    /\ pc = "sign"
    /\ \E sign_ok \in BOOLEAN :
        LET signature == sign_secure(signer, signed_data(Unwrap(loc.transaction_data)),
                                     sui_transaction)
        IN  /\ callLog' = Append(callLog,
                  [ev |-> "sign", ok |-> sign_ok,
                   signature |-> IF sign_ok THEN Some(signature) ELSE None])
            /\ signed(sign_ok, signature)
    /\ UNCHANGED <<ledger, builder, pins, builds_since_add>>

\* SenderSignedData::new(transaction_data, vec![signature]) in its Envelope
envelope(transaction_data, signature) ==
    [data |-> transaction_data, tx_signatures |-> <<signature>>]

\* The remote executes a transaction only when each reference of its gas
\* payment names the current version of an object the sender owns.
\* an object argument is usable: a shared object is named with the version
\* it became shared at, an owned or immutable one with its current version
argument_accepted(sender, a) ==
    CASE a.arg = "SharedObject" ->
            IF a.id = ClockId
            THEN a.initial_shared_version = 1
            ELSE /\ objects[a.id].exists
                 /\ objects[a.id].owner.kind = "Shared"
                 /\ objects[a.id].owner.initial_shared_version = a.initial_shared_version
                 /\ a.mutability = "Mutable" => objects[a.id].version < MaxVersion
      [] a.arg = "ImmOrOwnedObject" ->
            /\ objects[a.ref[1]].exists
            /\ \/ objects[a.ref[1]].owner = [kind |-> "AddressOwner", address |-> sender]
               \/ objects[a.ref[1]].owner.kind = "Immutable"
            /\ objects[a.ref[1]].version = a.ref[2]
            /\ a.ref[2] < MaxVersion
      [] OTHER -> TRUE

\* the arguments of the calls of a payload that make the ledger write `id`
writes(tx, id) ==
    \E i \in 1..Len(tx.pt) :
        /\ tx.pt[i].kind = "MoveCall"
        /\ \E j \in 1..Len(tx.pt[i].arguments) :
              LET a == tx.pt[i].arguments[j]
              IN  \/ a.arg = "SharedObject" /\ a.mutability = "Mutable" /\ a.id = id
                  \/ a.arg = "ImmOrOwnedObject" /\ a.ref[1] = id

ledger_accepts(tx) ==
    /\ \A i \in 1..Len(tx.gas_payment) :
          LET r == tx.gas_payment[i]
          IN  /\ objects[r[1]].exists
              /\ objects[r[1]].owner = [kind |-> "AddressOwner", address |-> tx.sender]
              /\ objects[r[1]].version = r[2]
              /\ r[2] < MaxVersion
    /\ \A i \in 1..Len(tx.pt) :
          tx.pt[i].kind = "MoveCall" =>
              \A j \in 1..Len(tx.pt[i].arguments) :
                  argument_accepted(tx.sender, tx.pt[i].arguments[j])

\* executing it changes the objects it pays with
ledger_execute(tx) ==
    /\ objects' = [id \in DOMAIN objects |->
                     IF \/ \E i \in 1..Len(tx.gas_payment) : tx.gas_payment[i][1] = id
                        \/ writes(tx, id)
                     THEN [objects[id] EXCEPT !.version = @ + 1]
                     ELSE objects[id]]
    /\ UNCHANGED <<holdings, ref_price>>

\* what the submission can come to: executed and answered, refused by the
\* remote, lost before it arrived, executed with the answer lost
SubmitOutcomes == {"executed", "rejected", "unreachable", "timeout"}

\* an execute() that submits again when no answer came
submitted_retrying(outcome, env) ==
    IF outcome = "executed"
    THEN ret([digest |-> <<"tx", env.data>>, status |-> "success"])
    ELSE IF outcome \in {"unreachable", "timeout"} /\ Len(callLog) < 9
    THEN UNCHANGED <<stack, pc, result>>
    ELSE fail("ExecutionError")

\* an execute() that unwraps the answer of the submission
submitted_unwrapping(outcome, env) ==
    IF outcome = "executed"
    THEN ret([digest |-> <<"tx", env.data>>, status |-> "success"])
    ELSE panic

\* what execute() does with the answer of execute_transaction_block
submitted(outcome, env) ==
    IF outcome = "executed"
    THEN ret([digest |-> <<"tx", env.data>>, status |-> "success"])
    ELSE fail("ExecutionError")

execute_submit ==
    /\ pc = "submit"
    /\ \E outcome \in SubmitOutcomes :
        LET env == envelope(Unwrap(loc.transaction_data), Unwrap(loc.signature))
        IN  /\ callLog' = Append(callLog,
                  [ev |-> "submit", ok |-> outcome = "executed",
                   outcome |-> outcome, envelope |-> env])
            /\ IF outcome \in {"executed", "timeout"}
               THEN ledger_accepts(env.data) /\ ledger_execute(env.data)
               ELSE UNCHANGED ledger
            /\ submitted(outcome, env)
    /\ UNCHANGED <<loc, builder, pins, builds_since_add>>

(***************************************************************************)
(* The rest of the world: other parties' transactions, epoch changes.      *)
(* The client reads the ledger only in the answers to its requests, so a   *)
(* change made while no call runs is the same change made before the       *)
(* first answer of the next call: only the latter is modelled.             *)
(***************************************************************************)
ledger_mutate(id) ==
    /\ pc # "idle"
    /\ objects[id].exists
    /\ objects[id].version < MaxVersion
    /\ objects' = [objects EXCEPT ![id].version = @ + 1]
    /\ UNCHANGED <<holdings, ref_price, builder,
                   pins, stack, pc, loc, result, callLog, builds_since_add>>

price_change ==
    /\ pc # "idle"
    /\ \E p \in Prices : p # ref_price /\ ref_price' = p
    /\ UNCHANGED <<objects, holdings, builder,
                   pins, stack, pc, loc, result, callLog, builds_since_add>>

(***************************************************************************)
(* Spec: one CanaryTransactionBuilder and its caller.                      *)
(***************************************************************************)
NoObject == [exists |-> FALSE, version |-> 0, owner |-> [kind |-> "None"], type_ |-> None]

CoinType == <<"0", "x", "2", ":", ":", "c", "o", "i", "n", ":", ":", "C", "o", "i", "n">>

Coin(owner) ==
    [exists |-> TRUE, version |-> 1,
     owner |-> [kind |-> "AddressOwner", address |-> owner], type_ |-> Some(CoinType)]

\* the holdings lists a signer starts with
HoldingsLists == {<<>>, <<CoinA, CoinB>>, <<CoinB, CoinA>>}

InSeq(x, q) == \E i \in 1..Len(q) : q[i] = x

Init ==
    /\ holdings \in HoldingsLists
    /\ objects = [id \in ObjectIDs |->
                    IF id \in {CoinA, CoinB}
                    THEN Coin(IF InSeq(id, holdings) THEN signer ELSE "other")
                    ELSE NoObject]
    /\ ref_price \in Prices
    /\ builder = <<>>
    /\ gas_budget = None
    /\ gas_object = None
    /\ stack = <<>>
    /\ pc = "idle"
    /\ loc = NoLocals
    /\ result = NoResult
    /\ callLog = <<>>
    /\ builds_since_add = 0

Next ==
    \/ \E m \in Names, f \in Names : move_call(PackageId, m, f, <<>>)
    \/ transfer_sui(Recipient, U64Of(1000))
    \/ \E b \in PinBudgets : set_gas_budget(b)
    \/ \E id \in PinObjects : set_gas_object(id)
    \/ build
    \/ execute
    \/ build_get_gas_object
    \/ build_get_coins
    \/ build_get_first_gas
    \/ build_est_gas_price
    \/ build_estimate_gas
    \/ build_gas_price
    \/ execute_sign
    \/ execute_submit
    \/ \E id \in ObjectIDs : ledger_mutate(id)
    \/ price_change

Spec == Init /\ [][Next]_vars

(***************************************************************************)
(* canary.rs: the contract operations.  A String that is only carried (a   *)
(* domain) holds its UTF-8 bytes; an address that is only carried holds    *)
(* its 32 bytes.  The ids of the ledger's objects stay names.              *)
(***************************************************************************)
HexDigits == Digits \cup {"a", "b", "c", "d", "e", "f", "A", "B", "C", "D", "E", "F"}

\* str::rfind("::"): the position of the last separator, 0 when there is none
rfind_separator(type_str) ==
    LET hits == {i \in 1..(Len(type_str) - 1) : type_str[i] = ":" /\ type_str[i + 1] = ":"}
    IN  IF hits = {} THEN 0 ELSE CHOOSE i \in hits : \A j \in hits : i >= j

\* str::find("::"): the position of the first separator, 0 when there is none
find_separator(type_str) ==
    LET hits == {i \in 1..(Len(type_str) - 1) : type_str[i] = ":" /\ type_str[i + 1] = ":"}
    IN  IF hits = {} THEN 0 ELSE CHOOSE i \in hits : \A j \in hits : i <= j

\* hex decoding takes the digits A-F for a-f
to_lowercase(digits) ==
    [i \in 1..Len(digits) |->
        CASE digits[i] = "A" -> "a"
          [] digits[i] = "B" -> "b"
          [] digits[i] = "C" -> "c"
          [] digits[i] = "D" -> "d"
          [] digits[i] = "E" -> "e"
          [] digits[i] = "F" -> "f"
          [] OTHER -> digits[i]]

\* the hex digits of an address without their leading zeros
RECURSIVE strip_zeros(_)
strip_zeros(digits) ==
    IF digits # <<>> /\ digits[1] = "0" THEN strip_zeros(Tail(digits)) ELSE digits

\* ObjectID::from_hex_literal(..).ok(): "0x" and at most 64 hex digits
from_hex_literal(literal) ==
    IF /\ Len(literal) >= 2
       /\ literal[1] = "0"
       /\ literal[2] = "x"
       /\ Len(literal) - 2 <= 64
       /\ \A i \in 3..Len(literal) : literal[i] \in HexDigits
    THEN Some(<<"0", "x">> \o strip_zeros(to_lowercase(SubSeq(literal, 3, Len(literal)))))
    ELSE None

extract_package_id_from_type(type_str) ==
    LET colon_pos == find_separator(type_str)
    IN  IF colon_pos # 0
        THEN from_hex_literal(SubSeq(type_str, 1, colon_pos - 1))
        ELSE None

\* the module and function names the operations call
member_registry ==
    <<"m", "e", "m", "b", "e", "r", "_", "r", "e", "g", "i", "s", "t", "r", "y">>

pkg_storage == <<"p", "k", "g", "_", "s", "t", "o", "r", "a", "g", "e">>

get_admin == <<"g", "e", "t", "_", "a", "d", "m", "i", "n">>

is_member == <<"i", "s", "_", "m", "e", "m", "b", "e", "r">>

get_member_info ==
    <<"g", "e", "t", "_", "m", "e", "m", "b", "e", "r", "_", "i", "n", "f", "o">>

get_full_info == <<"g", "e", "t", "_", "f", "u", "l", "l", "_", "i", "n", "f", "o">>

derive_canary_address_fn ==
    <<"d", "e", "r", "i", "v", "e", "_", "c", "a", "n", "a", "r", "y", "_",
      "a", "d", "d", "r", "e", "s", "s">>

\* CallArg::Object(ObjectArg::SharedObject {..})
SharedObject(id, initial_shared_version, mutability) ==
    [arg |-> "SharedObject", id |-> id,
     initial_shared_version |-> initial_shared_version, mutability |-> mutability]

\* CallArg::Object(ObjectArg::ImmOrOwnedObject(ref))
ImmOrOwnedObject(ref) == [arg |-> "ImmOrOwnedObject", ref |-> ref]

\* CallArg::Pure(bytes)
Pure(bytes) == [arg |-> "Pure", bytes |-> bytes]

\* a String value
String(utf8) == [utf8 |-> utf8]

\* String::as_bytes: the UTF-8 bytes, with nothing before them
as_bytes(string) == string.utf8

\* ObjectID::from_bytes / SuiAddress::from: an address value of 32 bytes
from_bytes(address_array) == [bytes |-> address_array]

\* ObjectID::to_vec and bcs::to_bytes(&SuiAddress): the 32 bytes
to_vec(address) == address.bytes

\* an address decoder that takes the first 32 bytes of a longer buffer
parse_address_truncating(bytes) ==
    IF Len(bytes) < 32 THEN None ELSE Some(from_bytes(SubSeq(bytes, 1, 32)))

\* parse_address and the same checks written out in query_registry_admin and
\* derive_canary_address: None stands for the Err
parse_address(bytes) ==
    IF Len(bytes) # 32 THEN None ELSE Some(from_bytes(bytes))

\* bcs::from_bytes::<bool>
bcs_from_bytes_bool(bytes) ==
    IF Len(bytes) = 1 /\ bytes[1] \in {0, 1} THEN Some(bytes[1] = 1) ELSE None

\* bcs::from_bytes::<u64>: eight bytes, least significant first
bcs_from_bytes_u64(bytes) ==
    IF Len(bytes) = 8
    THEN Some(<<bytes[8] * 256 + bytes[7], bytes[6] * 256 + bytes[5],
                bytes[4] * 256 + bytes[3], bytes[2] * 256 + bytes[1]>>)
    ELSE None

\* bcs::from_bytes::<String>: a ULEB128 length, that many bytes of UTF-8 and
\* nothing after them.  The buffers here are shorter than 128 bytes, so the
\* length is one byte, and hold ASCII only.
bcs_from_bytes_string(bytes) ==
    IF /\ Len(bytes) >= 1
       /\ bytes[1] < 128
       /\ Len(bytes) = bytes[1] + 1
       /\ \A i \in 2..Len(bytes) : bytes[i] < 128
    THEN Some(String(SubSeq(bytes, 2, Len(bytes))))
    ELSE None

\* SuiAddress::from_str("0x1")
dummy_sender == "0x1"

\* SuiObjectResponse of get_object_with_options: data is None when the remote
\* reports no such object
get_object_response(id) ==
    IF objects[id].exists
    THEN Some([object_id |-> id,
               version |-> objects[id].version,
               object_ref |-> object_ref(id, objects),
               type_ |-> objects[id].type_,
               owner |-> Some(objects[id].owner),
               previous_transaction |-> Some(<<"tx", id, objects[id].version>>)])
    ELSE None

\* the request and its answer as the call saw them: answered when the remote
\* gave a response, ok when the response carries the object
get_object_event(id, net_ok) ==
    [ev |-> "get_object", ok |-> net_ok /\ objects[id].exists, id |-> id,
     answered |-> net_ok,
     owner |-> IF net_ok /\ objects[id].exists THEN Some(objects[id].owner) ELSE None,
     ref |-> IF net_ok /\ objects[id].exists THEN Some(object_ref(id, objects)) ELSE None]

\* the locals of a contract operation, before any is assigned
CanaryLocals ==
    [params |-> <<>>, package_id |-> None, registry_ref |-> None,
     admin_cap_ref |-> None, canary_blob_ref |-> None, admin |-> None,
     is_member |-> None, pt |-> None, transaction_data |-> None]

\* a contract operation is called: it runs up to its first await
canary_call(name, params, first_await) ==
    /\ pc = "idle"
    /\ stack' = <<name>>
    /\ pc' = first_await
    /\ loc' = [CanaryLocals EXCEPT !.params = params]
    /\ result' = NoResult
    /\ callLog' = <<>>
    /\ UNCHANGED <<ledger, builder, pins, builds_since_add>>

\* a CanaryError made in canary.rs, passed up by `?` to the caller of the
\* operation
canary_error(kind) ==
    /\ result' = Err(stack[1], <<kind>>)
    /\ stack' = <<>>
    /\ pc' = "idle"

\* the package named by the type of a looked-up object: None when the object
\* or its type is missing or extract_package_id_from_type gives nothing
type_package(response) ==
    IF response = None
    THEN None
    ELSE IF Unwrap(response).type_ = None
    THEN None
    ELSE extract_package_id_from_type(Unwrap(Unwrap(response).type_))

\* dev_inspect_call up to its first await: the call is put into a fresh
\* ProgrammableTransactionBuilder and finished
dev_inspect_call(callers, package_id, module, function, args) ==
    IF is_valid_identifier(module) /\ is_valid_identifier(function)
    THEN /\ loc' = [loc EXCEPT
                !.pt = Some(finish(<<MoveCall(package_id, module, function, args)>>)),
                !.transaction_data = None]
         /\ stack' = Append(callers, "dev_inspect_call")
         /\ pc' = "dev_inspect_gas_price"
         /\ UNCHANGED result
    ELSE canary_error("Registry") /\ UNCHANGED loc

DummyBudget == U64Of(10000000)

\* get_reference_gas_price in dev_inspect_call, then TransactionData
dev_inspect_gas_price ==
    /\ pc = "dev_inspect_gas_price"
    /\ \E net_ok \in BOOLEAN :
        /\ callLog' = Append(callLog,
              [ev |-> "gas_price", ok |-> net_ok,
               price |-> IF net_ok THEN Some(ref_price) ELSE None])
        /\ IF net_ok
           THEN /\ loc' = [loc EXCEPT !.transaction_data =
                            Some(new_programmable(dummy_sender, <<>>, Unwrap(loc.pt),
                                                  ref_price, DummyBudget))]
                /\ pc' = "dev_inspect_transaction_block"
                /\ UNCHANGED <<stack, result>>
           ELSE canary_error("Registry") /\ UNCHANGED loc
    /\ UNCHANGED <<ledger, builder, pins, builds_since_add>>

\* query_registry_fields calls no view function: it is the Err, always
query_registry_fields == None

\* query_registry_admin once dev_inspect_call has returned, and the rest of
\* query_registry after it
get_admin_returned(return_values) ==
    LET admin == IF return_values = <<>> THEN None ELSE parse_address(return_values[1])
    IN  IF admin = None
        THEN canary_error("Registry") /\ UNCHANGED loc
        ELSE /\ loc' = [loc EXCEPT !.admin = admin]
             /\ IF query_registry_fields = None
                THEN canary_error("Registry")
                ELSE IF stack[1] = "query_registry"
                THEN ret([id |-> loc.params.registry_id,
                          fee |-> Unwrap(query_registry_fields)[2],
                          member_count |-> Unwrap(query_registry_fields)[1],
                          admin |-> Unwrap(admin)])
                ELSE \* join_registry goes on with the RegistryInfo
                     /\ stack' = <<stack[1]>>
                     /\ pc' = "join_registry_get_object"
                     /\ UNCHANGED result

\* a query_member that asks for the member's info whatever is_member answered
is_member_returned_unchecked(return_values) ==
    LET decoded == IF return_values = <<>>
                   THEN None
                   ELSE bcs_from_bytes_bool(return_values[1])
    IN  IF decoded = None
        THEN canary_error("Registry") /\ UNCHANGED loc
        ELSE /\ loc' = [loc EXCEPT !.is_member = decoded]
             /\ stack' = <<stack[1], "query_member_info">>
             /\ pc' = "query_member_info"
             /\ UNCHANGED result

\* query_is_member once dev_inspect_call has returned, and query_member after
\* it: Ok(None), or on to query_member_info
is_member_returned(return_values) ==
    LET decoded == IF return_values = <<>>
                   THEN None
                   ELSE bcs_from_bytes_bool(return_values[1])
    IN  IF decoded = None
        THEN canary_error("Registry") /\ UNCHANGED loc
        ELSE /\ loc' = [loc EXCEPT !.is_member = decoded]
             /\ IF ~Unwrap(decoded)
                THEN ret(None)
                ELSE /\ stack' = <<stack[1], "query_member_info">>
                     /\ pc' = "query_member_info"
                     /\ UNCHANGED result

\* query_member_info once dev_inspect_call has returned
get_member_info_returned(return_values) ==
    /\ UNCHANGED loc
    /\ IF Len(return_values) # 2
       THEN canary_error("Registry")
       ELSE LET domain == bcs_from_bytes_string(return_values[1])
                joined_at == bcs_from_bytes_u64(return_values[2])
            IN  IF domain = None \/ joined_at = None
                THEN canary_error("Registry")
                ELSE ret(Some([domain |-> Unwrap(domain),
                               joined_at |-> Unwrap(joined_at)]))

\* derive_canary_address once dev_inspect_call has returned: result[0] is
\* indexed without a look at the length of result
derive_canary_address_returned(return_values) ==
    /\ UNCHANGED loc
    /\ IF return_values = <<>>
       THEN panic
       ELSE IF parse_address(return_values[1]) = None
       THEN canary_error("Registry")
       ELSE ret(Unwrap(parse_address(return_values[1])))

\* query_canary_blob once dev_inspect_call has returned
get_full_info_returned(return_values) ==
    /\ UNCHANGED loc
    /\ IF Len(return_values) # 6
       THEN canary_error("CanaryBlobNotFound")
       ELSE LET contract_blob_id == parse_address(return_values[1])
                explain_blob_id == parse_address(return_values[2])
                package_id == parse_address(return_values[3])
                domain == bcs_from_bytes_string(return_values[4])
                uploaded_at == bcs_from_bytes_u64(return_values[5])
                uploaded_by_admin == parse_address(return_values[6])
            IN  IF \/ contract_blob_id = None
                   \/ explain_blob_id = None
                   \/ package_id = None
                   \/ domain = None
                   \/ uploaded_at = None
                   \/ uploaded_by_admin = None
                THEN canary_error("Registry")
                ELSE ret([id |-> loc.params.canary_blob_id,
                          contract_blob_id |-> Unwrap(contract_blob_id),
                          explain_blob_id |-> Unwrap(explain_blob_id),
                          package_id |-> Unwrap(package_id),
                          domain |-> Unwrap(domain),
                          uploaded_at |-> Unwrap(uploaded_at),
                          uploaded_by_admin |-> Unwrap(uploaded_by_admin)])

\* the caller of dev_inspect_call goes on with the return values
returned(return_values) ==
    LET function == Unwrap(loc.pt)[1].function
    IN  CASE function = get_admin -> get_admin_returned(return_values)
          [] function = is_member -> is_member_returned(return_values)
          [] function = get_member_info -> get_member_info_returned(return_values)
          [] function = derive_canary_address_fn ->
                derive_canary_address_returned(return_values)
          [] function = get_full_info -> get_full_info_returned(return_values)

\* a dev_inspect_call that sends its transaction to be executed
execute_transaction_block_unsigned(sender, transaction_data, gas_price, net_ok, return_values) ==
    [ev |-> "submit", ok |-> net_ok, sender |-> sender, tx |-> transaction_data,
     gas_price |-> gas_price,
     return_values |-> IF net_ok THEN Some(return_values) ELSE None]

\* read_api().dev_inspect_transaction_block(sender, tx, Some(gas_price), None,
\* None) and its answer
dev_inspect_transaction_block(sender, transaction_data, gas_price, net_ok, return_values) ==
    [ev |-> "dev_inspect", ok |-> net_ok, sender |-> sender, tx |-> transaction_data,
     gas_price |-> gas_price,
     return_values |-> IF net_ok THEN Some(return_values) ELSE None]

\* a dev_inspect_call that hands on return values whatever the answer was
inspected_unchecked(net_ok, return_values) == returned(return_values)

\* `.await.map_err(..)?` on the simulation, then Ok(return_values)
inspected(net_ok, return_values) ==
    IF net_ok
    THEN returned(return_values)
    ELSE canary_error("Registry") /\ UNCHANGED loc

\* the buffers a simulation can answer with
AddressBytes(n) == [i \in 1..32 |-> (i + n) % 256]

ShortBytes == [i \in 1..31 |-> i]

DomainBytes == <<3, 97, 46, 98>>

U64Bytes == <<1, 2, 0, 0, 0, 0, 0, 0>>

ReturnValues ==
    { <<>>,
      <<AddressBytes(0)>>,
      <<ShortBytes>>,
      <<AddressBytes(0), AddressBytes(1)>>,
      << <<1>> >>,
      << <<0>> >>,
      <<DomainBytes, U64Bytes>>,
      <<AddressBytes(1), AddressBytes(2), AddressBytes(3), DomainBytes, U64Bytes,
        AddressBytes(4)>>,
      <<AddressBytes(1), AddressBytes(2), AddressBytes(3), DomainBytes, U64Bytes>> }

dev_inspect ==
    /\ pc = "dev_inspect_transaction_block"
    /\ \E net_ok \in BOOLEAN, return_values \in ReturnValues :
        LET transaction_data == Unwrap(loc.transaction_data)
        IN  /\ callLog' = Append(callLog,
                  dev_inspect_transaction_block(dummy_sender, transaction_data,
                      transaction_data.gas_price, net_ok, return_values))
            /\ inspected(net_ok, return_values)
    /\ UNCHANGED <<ledger, builder, pins, builds_since_add>>

(***************************************************************************)
(* The read-only queries.                                                  *)
(***************************************************************************)
\* the first await of query_registry, query_member and
\* derive_canary_address: the registry, its type, the package of the type
registry_package(net_ok) ==
    IF net_ok THEN type_package(get_object_response(loc.params.registry_id)) ELSE None

query_registry(registry_id) ==
    canary_call("query_registry", [registry_id |-> registry_id], "query_registry")

query_registry_get_object ==
    /\ pc = "query_registry"
    /\ \E net_ok \in BOOLEAN :
        /\ callLog' = Append(callLog, get_object_event(loc.params.registry_id, net_ok))
        /\ IF IsSome(registry_package(net_ok))
           THEN /\ loc' = [loc EXCEPT !.package_id = registry_package(net_ok)]
                /\ stack' = Append(stack, "query_registry_admin")
                /\ pc' = "query_registry_admin"
                /\ UNCHANGED result
           ELSE canary_error("Registry") /\ UNCHANGED loc
    /\ UNCHANGED <<ledger, builder, pins, builds_since_add>>

\* the await of query_registry_admin; the version of object_ref() goes into
\* the argument
query_registry_admin ==
    /\ pc = "query_registry_admin"
    /\ \E net_ok \in BOOLEAN :
        LET registry_id == loc.params.registry_id
            registry_obj == IF net_ok THEN get_object_response(registry_id) ELSE None
        IN  /\ callLog' = Append(callLog, get_object_event(registry_id, net_ok))
            /\ IF IsSome(registry_obj)
               THEN dev_inspect_call(stack, Unwrap(loc.package_id), member_registry, get_admin,
                        <<SharedObject(registry_id, Unwrap(registry_obj).object_ref[2],
                                       "Immutable")>>)
               ELSE canary_error("Registry") /\ UNCHANGED loc
    /\ UNCHANGED <<ledger, builder, pins, builds_since_add>>

query_member(registry_id, member_address) ==
    canary_call("query_member",
                [registry_id |-> registry_id, member_address |-> member_address],
                "query_member")

query_member_get_object ==
    /\ pc = "query_member"
    /\ \E net_ok \in BOOLEAN :
        /\ callLog' = Append(callLog, get_object_event(loc.params.registry_id, net_ok))
        /\ IF IsSome(registry_package(net_ok))
           THEN /\ loc' = [loc EXCEPT !.package_id = registry_package(net_ok)]
                /\ stack' = Append(stack, "query_is_member")
                /\ pc' = "query_is_member"
                /\ UNCHANGED result
           ELSE canary_error("Registry") /\ UNCHANGED loc
    /\ UNCHANGED <<ledger, builder, pins, builds_since_add>>

\* the await of query_is_member and of query_member_info: both pass the
\* object's previous_transaction where the initial shared version belongs
member_call(function) ==
    \E net_ok \in BOOLEAN :
        LET registry_id == loc.params.registry_id
            registry_obj == IF net_ok THEN get_object_response(registry_id) ELSE None
        IN  /\ callLog' = Append(callLog, get_object_event(registry_id, net_ok))
            /\ IF registry_obj = None
               THEN canary_error("Registry") /\ UNCHANGED loc
               ELSE IF Unwrap(registry_obj).previous_transaction = None
               THEN canary_error("Registry") /\ UNCHANGED loc
               ELSE dev_inspect_call(stack, Unwrap(loc.package_id), member_registry, function,
                        <<SharedObject(registry_id,
                                       Unwrap(Unwrap(registry_obj).previous_transaction),
                                       "Immutable"),
                          Pure(to_vec(loc.params.member_address))>>)

query_is_member ==
    /\ pc = "query_is_member"
    /\ member_call(is_member)
    /\ UNCHANGED <<ledger, builder, pins, builds_since_add>>

query_member_info ==
    /\ pc = "query_member_info"
    /\ member_call(get_member_info)
    /\ UNCHANGED <<ledger, builder, pins, builds_since_add>>

derive_canary_address(registry_id, domain, package_id) ==
    canary_call("derive_canary_address",
                [package_id |-> package_id, registry_id |-> registry_id, domain |-> domain],
                "derive_canary_address")

derive_canary_address_get_object ==
    /\ pc = "derive_canary_address"
    /\ \E net_ok \in BOOLEAN :
        /\ callLog' = Append(callLog, get_object_event(loc.params.registry_id, net_ok))
        /\ IF IsSome(registry_package(net_ok))
           THEN /\ loc' = [loc EXCEPT !.package_id = registry_package(net_ok)]
                /\ stack' = Append(stack, "get_initial_shared_version")
                /\ pc' = "get_initial_shared_version"
                /\ UNCHANGED result
           ELSE canary_error("Registry") /\ UNCHANGED loc
    /\ UNCHANGED <<ledger, builder, pins, builds_since_add>>

query_canary_blob(canary_blob_id) ==
    canary_call("query_canary_blob", [canary_blob_id |-> canary_blob_id],
                "query_canary_blob")

query_canary_blob_get_object ==
    /\ pc = "query_canary_blob"
    /\ \E net_ok \in BOOLEAN :
        LET canary_blob_id == loc.params.canary_blob_id
            canary_package_id ==
                IF net_ok THEN type_package(get_object_response(canary_blob_id)) ELSE None
        IN  /\ callLog' = Append(callLog, get_object_event(canary_blob_id, net_ok))
            /\ IF IsSome(canary_package_id)
               THEN /\ loc' = [loc EXCEPT !.package_id = canary_package_id]
                    /\ stack' = Append(stack, "get_initial_shared_version")
                    /\ pc' = "get_initial_shared_version"
                    /\ UNCHANGED result
               ELSE canary_error("CanaryBlobNotFound") /\ UNCHANGED loc
    /\ UNCHANGED <<ledger, builder, pins, builds_since_add>>

\* the call each caller of get_initial_shared_version makes with the version
initial_shared_version_got(initial_shared_version) ==
    IF stack[1] = "derive_canary_address"
    THEN dev_inspect_call(<<stack[1]>>, Unwrap(loc.package_id), pkg_storage,
             derive_canary_address_fn,
             <<SharedObject(loc.params.registry_id, initial_shared_version, "Immutable"),
               Pure(as_bytes(loc.params.domain)),
               Pure(to_vec(loc.params.package_id))>>)
    ELSE dev_inspect_call(<<stack[1]>>, Unwrap(loc.package_id), pkg_storage, get_full_info,
             <<SharedObject(loc.params.canary_blob_id, initial_shared_version,
                            "Immutable")>>)

\* get_initial_shared_version: `.await?`, then data.unwrap().owner.unwrap()
\* and the match whose other arm is panic!("")
get_initial_shared_version ==
    /\ pc = "get_initial_shared_version"
    /\ \E net_ok \in BOOLEAN :
        LET object_id == IF stack[1] = "derive_canary_address"
                         THEN loc.params.registry_id
                         ELSE loc.params.canary_blob_id
            response == get_object_response(object_id)
        IN  /\ callLog' = Append(callLog, get_object_event(object_id, net_ok))
            /\ IF ~net_ok
               THEN canary_error("Registry") /\ UNCHANGED loc
               ELSE IF response = None
               THEN panic /\ UNCHANGED loc
               ELSE IF Unwrap(response).owner = None
               THEN panic /\ UNCHANGED loc
               ELSE IF Unwrap(Unwrap(response).owner).kind # "Shared"
               THEN panic /\ UNCHANGED loc
               ELSE initial_shared_version_got(
                        Unwrap(Unwrap(response).owner).initial_shared_version)
    /\ UNCHANGED <<ledger, builder, pins, builds_since_add>>

(***************************************************************************)
(* SpecQuery: a caller of the read-only queries, and the ledger they read. *)
(***************************************************************************)
\* another party's transaction deletes an object
ledger_delete(id) ==
    /\ pc # "idle"
    /\ objects[id].exists
    /\ objects' = [objects EXCEPT ![id] = NoObject]
    /\ UNCHANGED <<holdings, ref_price, builder,
                   pins, stack, pc, loc, result, callLog, builds_since_add>>

\* "0xca::r::R", the same with a leading zero and a type parameter, one
\* without a separator, one whose first segment is no hex literal
TypeDescriptors ==
    { <<"0", "x", "c", "a", ":", ":", "r", ":", ":", "R">>,
      <<"0", "x", "0", "c", "a", ":", ":", "r", ":", ":", "R", "<", "0", "x", "2",
        ":", ":", "s", ":", ":", "S", ">">>,
      <<"0", "x", "c", "a">>,
      <<"c", "a", ":", ":", "r", ":", ":", "R">> }

CanaryBlobType == <<"0", "x", "c", "a", ":", ":", "p", ":", ":", "C">>

Owners ==
    { [kind |-> "Shared", initial_shared_version |-> 1],
      [kind |-> "AddressOwner", address |-> signer],
      [kind |-> "Immutable"] }

SharedObjects == {RegistryId, CanaryBlobId}

\* the values the caller passes
Domain == String(<<97, 46, 98>>)

MemberAddress == from_bytes(AddressBytes(7))

StoredPackage == from_bytes(AddressBytes(9))

InitQuery ==
    /\ holdings = <<>>
    /\ \E type_str \in TypeDescriptors, owner \in Owners :
          objects = [id \in ObjectIDs |->
                       IF id = RegistryId
                       THEN [exists |-> TRUE, version |-> 1,
                             owner |-> [kind |-> "Shared", initial_shared_version |-> 1],
                             type_ |-> Some(type_str)]
                       ELSE IF id = CanaryBlobId
                       THEN [exists |-> TRUE, version |-> 1, owner |-> owner,
                             type_ |-> Some(CanaryBlobType)]
                       ELSE NoObject]
    /\ ref_price \in Prices
    /\ builder = <<>>
    /\ gas_budget = None
    /\ gas_object = None
    /\ stack = <<>>
    /\ pc = "idle"
    /\ loc = CanaryLocals
    /\ result = NoResult
    /\ callLog = <<>>
    /\ builds_since_add = 0

NextQuery ==
    \/ query_registry(RegistryId)
    \/ query_registry_get_object
    \/ query_registry_admin
    \/ query_member(RegistryId, MemberAddress)
    \/ query_member_get_object
    \/ query_is_member
    \/ query_member_info
    \/ derive_canary_address(RegistryId, Domain, StoredPackage)
    \/ derive_canary_address_get_object
    \/ query_canary_blob(CanaryBlobId)
    \/ query_canary_blob_get_object
    \/ get_initial_shared_version
    \/ dev_inspect_gas_price
    \/ dev_inspect
    \/ \E id \in SharedObjects : ledger_mutate(id)
    \/ \E id \in SharedObjects : ledger_delete(id)
    \/ price_change

SpecQuery == InitQuery /\ [][NextQuery]_vars

(***************************************************************************)
(* SpecDecode: parse_address applied to one return buffer.                 *)
(***************************************************************************)
\* the bytes a buffer is filled with: byte i of a buffer is (i + fill) % 256
Fills == {0, 1, 255}

Buffer(len, fill) == [i \in 1..len |-> (i + fill) % 256]

\* the buffers of every length up to MaxBuffer
Buffers == {Buffer(len, fill) : len \in 0..MaxBuffer, fill \in Fills}

\* `parse_address(&result[i])?` in query_canary_blob: the ObjectID, or the
\* CanaryError::Registry the `?` passes up
parse_address_applied ==
    /\ pc = "idle"
    /\ ~result.done
    /\ LET object_id == parse_address(loc.params.bytes)
       IN  result' = IF object_id = None
                     THEN Err("parse_address", <<"Registry">>)
                     ELSE Ok("parse_address", Unwrap(object_id))
    /\ UNCHANGED <<ledger, builder, pins, stack, pc, loc, callLog, builds_since_add>>

InitDecode ==
    /\ holdings = <<>>
    /\ objects = [id \in ObjectIDs |-> NoObject]
    /\ ref_price \in Prices
    /\ builder = <<>>
    /\ gas_budget = None
    /\ gas_object = None
    /\ stack = <<>>
    /\ pc = "idle"
    /\ \E bytes \in Buffers : loc = [CanaryLocals EXCEPT !.params = [bytes |-> bytes]]
    /\ result = NoResult
    /\ callLog = <<>>
    /\ builds_since_add = 0

NextDecode == parse_address_applied

SpecDecode == InitDecode /\ [][NextDecode]_vars

(***************************************************************************)
(* SpecType: extract_package_id_from_type applied to one type descriptor.  *)
(***************************************************************************)
\* first segments that are hex literals of an address, each with the address
\* it names: short, with leading zeros, in capitals, "0x" alone, 64 digits
Addresses ==
    { <<<<"0", "x", "c", "a">>, <<"0", "x", "c", "a">>>>,
      <<<<"0", "x", "0", "c", "a">>, <<"0", "x", "c", "a">>>>,
      <<<<"0", "x", "C", "A">>, <<"0", "x", "c", "a">>>>,
      <<<<"0", "x", "2">>, <<"0", "x", "2">>>>,
      <<<<"0", "x">>, <<"0", "x">>>>,
      <<<<"0", "x">> \o [i \in 1..64 |-> "1"], <<"0", "x">> \o [i \in 1..64 |-> "1"]>> }

\* first segments that are no hex literal: no prefix, a capital prefix, a
\* letter that is no hex digit, nothing at all, 65 digits
NoAddresses ==
    { <<"c", "a">>,
      <<"0", "X", "c", "a">>,
      <<"0", "x", "g", "a">>,
      <<>>,
      <<"0", "x">> \o [i \in 1..65 |-> "1"] }

\* what follows the first segment: module and type, a type with a type
\* parameter of its own, a separator alone, and three without a separator
Rests ==
    { <<":", ":", "r", ":", ":", "R">>,
      <<":", ":", "r", ":", ":", "R", "<", "0", "x", "2", ":", ":", "s", ":", ":", "S", ">">>,
      <<":", ":">>,
      <<":", "r", ":", "R">>,
      <<"r">>,
      <<>> }

TypeStrings ==
    {[segment |-> a[1], rest |-> r, type_str |-> a[1] \o r] : a \in Addresses, r \in Rests}
    \cup {[segment |-> a, rest |-> r, type_str |-> a \o r] : a \in NoAddresses, r \in Rests}

\* `extract_package_id_from_type(&object_type.to_string()).ok_or_else(..)?`
\* in the callers: the package id, or the CanaryError::Registry of the `?`
extract_package_id_applied ==
    /\ pc = "idle"
    /\ ~result.done
    /\ LET package_id == extract_package_id_from_type(loc.params.type_str)
       IN  result' = IF package_id = None
                     THEN Err("extract_package_id_from_type", <<"Registry">>)
                     ELSE Ok("extract_package_id_from_type", Unwrap(package_id))
    /\ UNCHANGED <<ledger, builder, pins, stack, pc, loc, callLog, builds_since_add>>

InitType ==
    /\ holdings = <<>>
    /\ objects = [id \in ObjectIDs |-> NoObject]
    /\ ref_price \in Prices
    /\ builder = <<>>
    /\ gas_budget = None
    /\ gas_object = None
    /\ stack = <<>>
    /\ pc = "idle"
    /\ \E params \in TypeStrings : loc = [CanaryLocals EXCEPT !.params = params]
    /\ result = NoResult
    /\ callLog = <<>>
    /\ builds_since_add = 0

NextType == extract_package_id_applied

SpecType == InitType /\ [][NextType]_vars

(***************************************************************************)
(* The mutating helpers: lookups, one call on a new builder, execute().    *)
(***************************************************************************)
store_blob_fn == <<"s", "t", "o", "r", "e", "_", "b", "l", "o", "b">>

update_blob_fn == <<"u", "p", "d", "a", "t", "e", "_", "b", "l", "o", "b">>

delete_canary_blob_fn ==
    <<"d", "e", "l", "e", "t", "e", "_", "c", "a", "n", "a", "r", "y", "_",
      "b", "l", "o", "b">>

\* the Clock argument: object 0x6, shared at version 1, read only
Clock == SharedObject(ClockId, 1, "Immutable")

\* CanaryTransactionBuilder::new(client), builder.move_call(..)?, then
\* builder.execute() up to the first await of its build()
helper_execute(package_id, module, function, args) ==
    IF is_valid_identifier(module) /\ is_valid_identifier(function)
    THEN /\ build_queue(<<MoveCall(package_id, module, function, args)>>, 0,
                        <<stack[1], "execute">>)
         /\ UNCHANGED result
    ELSE /\ fail("BuildError")
         /\ UNCHANGED <<loc, builder, builds_since_add>>

\* a lookup of a helper that only keeps what it found and goes to the next
helper_get_object(id, field, not_found, next_await) ==
    \E net_ok \in BOOLEAN :
        LET obj == IF net_ok THEN get_object_response(id) ELSE None
        IN  /\ callLog' = Append(callLog, get_object_event(id, net_ok))
            /\ IF obj = None
               THEN canary_error(not_found) /\ UNCHANGED loc
               ELSE /\ loc' = [loc EXCEPT ![field] = Some(Unwrap(obj).object_ref)]
                    /\ pc' = next_await
                    /\ UNCHANGED <<stack, result>>

\* a lookup of a helper that also takes the package from the object's type
helper_get_package(id, field, not_found, next_await) ==
    \E net_ok \in BOOLEAN :
        LET obj == IF net_ok THEN get_object_response(id) ELSE None
        IN  /\ callLog' = Append(callLog, get_object_event(id, net_ok))
            /\ IF type_package(obj) = None
               THEN canary_error(not_found) /\ UNCHANGED loc
               ELSE /\ loc' = [loc EXCEPT ![field] = Some(Unwrap(obj).object_ref),
                                          !.package_id = type_package(obj)]
                    /\ pc' = next_await
                    /\ UNCHANGED <<stack, result>>

\* the last lookup of a helper: with the object found the call is made; args
\* are the arguments made with the reference of the answer
helper_last_object(id, module, function, args) ==
    \E net_ok \in BOOLEAN :
        LET obj == IF net_ok THEN get_object_response(id) ELSE None
        IN  /\ callLog' = Append(callLog, get_object_event(id, net_ok))
            /\ IF obj = None
               THEN /\ canary_error("Registry")
                    /\ UNCHANGED <<loc, builder, builds_since_add>>
               ELSE helper_execute(Unwrap(loc.package_id), module, function, args)

store_blob(registry_id, admin_cap_id, domain, contract_blob_id, explain_blob_id, package_id) ==
    canary_call("store_blob",
                [package_id |-> package_id, registry_id |-> registry_id, domain |-> domain,
                 contract_blob_id |-> contract_blob_id, explain_blob_id |-> explain_blob_id,
                 admin_cap_id |-> admin_cap_id],
                "store_blob_registry")

store_blob_registry ==
    /\ pc = "store_blob_registry"
    /\ helper_get_package(loc.params.registry_id, "registry_ref", "Registry",
                          "store_blob_admin_cap")
    /\ UNCHANGED <<ledger, builder, pins, builds_since_add>>

\* the registry goes in with registry_ref.1, the version of its reference
store_blob_args(admin_cap_ref) ==
    <<SharedObject(loc.params.registry_id, Unwrap(loc.registry_ref)[2], "Mutable"),
      ImmOrOwnedObject(admin_cap_ref),
      Pure(as_bytes(loc.params.domain)),
      Pure(to_vec(loc.params.contract_blob_id)),
      Pure(to_vec(loc.params.explain_blob_id)),
      Pure(to_vec(loc.params.package_id)),
      Clock>>

store_blob_admin_cap ==
    /\ pc = "store_blob_admin_cap"
    /\ helper_last_object(loc.params.admin_cap_id, pkg_storage, store_blob_fn,
                          store_blob_args(object_ref(loc.params.admin_cap_id, objects)))
    /\ UNCHANGED <<ledger, pins>>

update_blob(registry_id, admin_cap_id, canary_blob_id, new_contract_blob_id, new_explain_blob_id) ==
    canary_call("update_blob",
                [registry_id |-> registry_id, canary_blob_id |-> canary_blob_id,
                 admin_cap_id |-> admin_cap_id,
                 new_contract_blob_id |-> new_contract_blob_id,
                 new_explain_blob_id |-> new_explain_blob_id],
                "update_blob_canary_blob")

update_blob_canary_blob ==
    /\ pc = "update_blob_canary_blob"
    /\ helper_get_package(loc.params.canary_blob_id, "canary_blob_ref",
                          "CanaryBlobNotFound", "update_blob_admin_cap")
    /\ UNCHANGED <<ledger, builder, pins, builds_since_add>>

update_blob_admin_cap ==
    /\ pc = "update_blob_admin_cap"
    /\ helper_get_object(loc.params.admin_cap_id, "admin_cap_ref", "Registry",
                         "update_blob_registry")
    /\ UNCHANGED <<ledger, builder, pins, builds_since_add>>

\* registry_obj.object_ref().1 and canary_blob_ref.1 go in as the versions
update_blob_args(registry_ref) ==
    <<SharedObject(loc.params.registry_id, registry_ref[2], "Immutable"),
      ImmOrOwnedObject(Unwrap(loc.admin_cap_ref)),
      SharedObject(loc.params.canary_blob_id, Unwrap(loc.canary_blob_ref)[2], "Mutable"),
      Pure(to_vec(loc.params.new_contract_blob_id)),
      Pure(to_vec(loc.params.new_explain_blob_id)),
      Clock>>

update_blob_registry ==
    /\ pc = "update_blob_registry"
    /\ helper_last_object(loc.params.registry_id, pkg_storage, update_blob_fn,
                          update_blob_args(object_ref(loc.params.registry_id, objects)))
    /\ UNCHANGED <<ledger, pins>>

delete_canary_blob(registry_id, admin_cap_id, canary_blob_id) ==
    canary_call("delete_canary_blob",
                [registry_id |-> registry_id, canary_blob_id |-> canary_blob_id,
                 admin_cap_id |-> admin_cap_id],
                "delete_canary_blob_canary_blob")

delete_canary_blob_canary_blob ==
    /\ pc = "delete_canary_blob_canary_blob"
    /\ helper_get_package(loc.params.canary_blob_id, "canary_blob_ref",
                          "CanaryBlobNotFound", "delete_canary_blob_registry")
    /\ UNCHANGED <<ledger, builder, pins, builds_since_add>>

delete_canary_blob_registry ==
    /\ pc = "delete_canary_blob_registry"
    /\ helper_get_object(loc.params.registry_id, "registry_ref", "Registry",
                         "delete_canary_blob_admin_cap")
    /\ UNCHANGED <<ledger, builder, pins, builds_since_add>>

\* the canary blob goes in as ImmOrOwnedObject(canary_blob_obj_ref)
delete_canary_blob_args(admin_cap_ref) ==
    <<SharedObject(loc.params.registry_id, Unwrap(loc.registry_ref)[2], "Immutable"),
      ImmOrOwnedObject(admin_cap_ref),
      ImmOrOwnedObject(Unwrap(loc.canary_blob_ref))>>

delete_canary_blob_admin_cap ==
    /\ pc = "delete_canary_blob_admin_cap"
    /\ helper_last_object(loc.params.admin_cap_id, pkg_storage, delete_canary_blob_fn,
                          delete_canary_blob_args(object_ref(loc.params.admin_cap_id, objects)))
    /\ UNCHANGED <<ledger, pins>>

\* join_registry up to its first await, which is query_registry's
join_registry(registry_id, domain, payment_amount) ==
    /\ pc = "idle"
    /\ stack' = <<"join_registry", "query_registry">>
    /\ pc' = "query_registry"
    /\ loc' = [CanaryLocals EXCEPT !.params =
                 [registry_id |-> registry_id, domain |-> domain,
                  payment_amount |-> payment_amount]]
    /\ result' = NoResult
    /\ callLog' = <<>>
    /\ UNCHANGED <<ledger, builder, pins, builds_since_add>>

(***************************************************************************)
(* SpecHelper: a caller of the mutating helpers, the signer's coins, and   *)
(* the registry, admin capability and canary blob they work on.            *)
(***************************************************************************)
RegistryType == <<"0", "x", "c", "a", ":", ":", "r", ":", ":", "R">>

AdminCapType == <<"0", "x", "c", "a", ":", ":", "r", ":", ":", "A">>

ContractBlob == from_bytes(AddressBytes(1))

ExplainBlob == from_bytes(AddressBytes(2))

InitHelper ==
    /\ holdings \in HoldingsLists
    /\ objects = [id \in ObjectIDs |->
                    CASE id \in {CoinA, CoinB} ->
                            Coin(IF InSeq(id, holdings) THEN signer ELSE "other")
                      [] id = RegistryId ->
                            [exists |-> TRUE, version |-> 1,
                             owner |-> [kind |-> "Shared", initial_shared_version |-> 1],
                             type_ |-> Some(RegistryType)]
                      [] id = CanaryBlobId ->
                            [exists |-> TRUE, version |-> 1,
                             owner |-> [kind |-> "Shared", initial_shared_version |-> 1],
                             type_ |-> Some(CanaryBlobType)]
                      [] id = AdminCapId ->
                            [exists |-> TRUE, version |-> 1,
                             owner |-> [kind |-> "AddressOwner", address |-> signer],
                             type_ |-> Some(AdminCapType)]
                      [] OTHER -> NoObject]
    /\ ref_price \in Prices
    /\ builder = <<>>
    /\ gas_budget = None
    /\ gas_object = None
    /\ stack = <<>>
    /\ pc = "idle"
    /\ loc = CanaryLocals
    /\ result = NoResult
    /\ callLog = <<>>
    /\ builds_since_add = 0

NextHelper ==
    \/ store_blob(RegistryId, AdminCapId, Domain, ContractBlob, ExplainBlob, StoredPackage)
    \/ store_blob_registry
    \/ store_blob_admin_cap
    \/ update_blob(RegistryId, AdminCapId, CanaryBlobId, ContractBlob, ExplainBlob)
    \/ update_blob_canary_blob
    \/ update_blob_admin_cap
    \/ update_blob_registry
    \/ delete_canary_blob(RegistryId, AdminCapId, CanaryBlobId)
    \/ delete_canary_blob_canary_blob
    \/ delete_canary_blob_registry
    \/ delete_canary_blob_admin_cap
    \/ join_registry(RegistryId, Domain, U64Of(1000))
    \/ query_registry_get_object
    \/ query_registry_admin
    \/ dev_inspect_gas_price
    \/ dev_inspect
    \/ build_get_coins
    \/ build_get_first_gas
    \/ build_est_gas_price
    \/ build_estimate_gas
    \/ build_gas_price
    \/ execute_sign
    \/ execute_submit
    \/ \E id \in SharedObjects : ledger_mutate(id)
    \/ ledger_delete(CanaryBlobId)
    \/ price_change

SpecHelper == InitHelper /\ [][NextHelper]_vars

(***************************************************************************)
(* Properties of CanaryTransactionBuilder, checked under Spec.             *)
(***************************************************************************)
\* the requests of the call in progress (or the last one) of one kind
Requests(ev) == {i \in 1..Len(callLog) : callLog[i].ev = ev}

\* build() has returned a payload in the call in progress (or the last one)
Built == IsSome(loc.transaction_data)

Payload == Unwrap(loc.transaction_data)

C2_BuildSignSubmit ==
    /\ \A i \in Requests("submit") :
          /\ Built
          /\ i > 1
          /\ callLog[i - 1].ev = "sign"
          /\ callLog[i - 1].ok
          /\ IsSome(loc.signature)
          /\ \A j \in 1..(i - 1) : callLog[j].ok
          /\ \E j \in 1..(i - 1) : callLog[j].ev = "gas_price"
    /\ \A i \in 1..Len(callLog) :
          (callLog[i].ev # "submit" /\ ~callLog[i].ok) => Requests("submit") = {}

C2_Witness ==
    /\ Requests("submit") # {}
    /\ stack = <<>>
    /\ result.ok

\* C3: one execute() makes at most one submit request, whatever the answer;
\* no request of build() or execute() is made again after it failed: a
\* failed request is the last one of its call, and the call ends in an error.
C3_NoRetry ==
    /\ Cardinality(Requests("submit")) <= 1
    /\ \A i \in 1..Len(callLog) :
          ~callLog[i].ok =>
              /\ i = Len(callLog)
              /\ pc = "idle"
              /\ result.done
              /\ ~result.ok

C3_Witness ==
    /\ Requests("submit") # {}
    /\ callLog[Len(callLog)].ev = "submit"
    /\ callLog[Len(callLog)].outcome = "timeout"
    /\ pc = "idle"

\* C4: the payload execute() submits is the payload it signed and the
\* payload build() returned (sender, funding reference, operations, price
\* and budget alike), signed once, by the signer, under Intent::sui_transaction.
C4_SubmitsWhatWasBuilt ==
    /\ \A i \in Requests("sign") :
          callLog[i].ok =>
              /\ Unwrap(callLog[i].signature).data = Payload
              /\ Unwrap(callLog[i].signature).intent = sui_transaction
              /\ Unwrap(callLog[i].signature).signer = signer
    /\ \A i \in Requests("submit") :
          /\ callLog[i].envelope.data = Payload
          /\ callLog[i].envelope.tx_signatures = <<Unwrap(callLog[i - 1].signature)>>
          /\ callLog[i].envelope.tx_signatures[1].data = callLog[i].envelope.data

C4_Witness ==
    \E i \in Requests("submit") :
        /\ callLog[i].outcome = "executed"
        /\ callLog[i].envelope.data.pt # <<>>
        /\ callLog[i].envelope.data.gas_budget # U64Of(10000000)

\* the estimate of the dry run of the call, as estimate_gas returned it
Estimated == Unwrap(loc.estimated)

\* C5: the budget of the payload build() returns is the pinned budget when one
\* is pinned, and otherwise estimate + floor(estimate / 5), which is never
\* below the estimate.
C5_BudgetRule ==
    Built =>
        IF IsSome(gas_budget)
        THEN Payload.gas_budget = Unwrap(gas_budget)
        ELSE /\ Payload.gas_budget = U64Add(Estimated, U64Div5(Estimated)).val
             /\ ~U64Add(Estimated, U64Div5(Estimated)).overflow
             /\ U64Le(Estimated, Payload.gas_budget)

\* C6: the payload has one funding reference: the reference an object lookup
\* of this build returned, for the pinned gas object when one is pinned and
\* otherwise for the first coin of the list the holdings query returned.
C6_FundingReference ==
    Built =>
        /\ Len(Payload.gas_payment) = 1
        /\ \E i \in Requests("get_object") :
              /\ callLog[i].ok
              /\ callLog[i].ref = Some(Payload.gas_payment[1])
              /\ IF IsSome(gas_object)
                 THEN /\ callLog[i].id = Unwrap(gas_object)
                      /\ Requests("get_coins") = {}
                 ELSE \E j \in Requests("get_coins") :
                          /\ j < i
                          /\ callLog[j].ok
                          /\ callLog[j].data # <<>>
                          /\ callLog[i].id = callLog[j].data[1]

C6_Witness ==
    /\ Built
    /\ gas_object = None
    /\ Len(holdings) = 2
    /\ Payload.gas_payment[1][2] = 2

\* C7: with no gas object pinned, an empty answer of the holdings query ends
\* build() with InsufficientGas: no payload, and no price query, dry run,
\* signature or submission after it.
C7_NoCoinsNoPayload ==
    \A i \in Requests("get_coins") :
        (callLog[i].ok /\ callLog[i].data = <<>>) =>
            /\ i = Len(callLog)
            /\ pc = "idle"
            /\ result.done
            /\ result.err = <<"InsufficientGas">>
            /\ result.value = None
            /\ ~Built
            /\ loc.signature = None

C7_Witness ==
    /\ gas_object = None
    /\ \E i \in Requests("get_coins") : callLog[i].ok /\ callLog[i].data = <<>>
    /\ result.err = <<"InsufficientGas">>

(***************************************************************************)
(* Properties of the contract operations, checked under SpecHelper and     *)
(* SpecQuery.                                                              *)
(***************************************************************************)
\* the operation of the public interface in progress, or the last one
Operation == IF stack # <<>> THEN stack[1] ELSE result.of

QueryOperations ==
    {"query_registry", "query_member", "derive_canary_address", "query_canary_blob"}

\* every shared-object argument of the commands, the Clock aside, names the
\* version at which the ledger says the object became shared
InitialVersions(pt) ==
    \A i \in 1..Len(pt) :
        pt[i].kind = "MoveCall" =>
            \A j \in 1..Len(pt[i].arguments) :
                LET a == pt[i].arguments[j]
                IN  (/\ a.arg = "SharedObject"
                     /\ a.id # ClockId
                     /\ objects[a.id].exists
                     /\ objects[a.id].owner.kind = "Shared")
                    => a.initial_shared_version = objects[a.id].owner.initial_shared_version

\* C8: every shared-object argument the client builds (the registry in
\* join_registry, store_blob, update_blob, delete_canary_blob and get_admin,
\* the canary blob in update_blob) carries the object's initial shared version
\* from its ownership metadata, not its current version, also after the object
\* has been mutated.
C8_InitialSharedVersion ==
    IsSome(loc.pt) => InitialVersions(Unwrap(loc.pt))

\* C9: the read-only queries issue only object lookups, reference-price
\* queries and dev-inspect simulations, never a signing or a submission, and
\* no step of a query changes the ledger.
C9_QueriesOnlyRead ==
    /\ [](Operation \in QueryOperations =>
            /\ \A i \in 1..Len(callLog) :
                  callLog[i].ev \in {"get_object", "gas_price", "dev_inspect"}
            /\ Requests("sign") = {}
            /\ Requests("submit") = {})
    /\ [][(pc' # pc /\ Operation' \in QueryOperations) => ledger' = ledger]_vars

C9_Witness ==
    /\ result.ok
    /\ result.of = "query_member"
    /\ Cardinality(Requests("get_object")) = 3
    /\ Cardinality(Requests("gas_price")) = 2
    /\ Cardinality(Requests("dev_inspect")) = 2

\* C10: a query goes Unbuilt -> Built -> Executed -> Decoded: a simulation is
\* requested only with a call that was built (one command, the price query
\* answered), a failed build or simulation is the query's last request and
\* leaves it with an error and nothing decoded, and a query returns a decoded
\* value only after a simulation that succeeded.
C10_QueryStateMachine ==
    Operation \in QueryOperations =>
        /\ \A i \in Requests("dev_inspect") :
              /\ i > 1
              /\ callLog[i - 1].ev = "gas_price"
              /\ callLog[i - 1].ok
              /\ Len(callLog[i].tx.pt) = 1
              /\ callLog[i].tx.pt[1].kind = "MoveCall"
              /\ callLog[i].tx.gas_price = Unwrap(callLog[i - 1].price)
        /\ \A i \in Requests("gas_price") \cup Requests("dev_inspect") :
              ~callLog[i].ok =>
                  /\ i = Len(callLog)
                  /\ result.done
                  /\ ~result.ok
                  /\ result.value = None
        /\ (result.ok \/ IsSome(loc.admin) \/ IsSome(loc.is_member)) =>
              \E i \in Requests("dev_inspect") : callLog[i].ok
        /\ result.ok =>
              /\ callLog[Len(callLog)].ev = "dev_inspect"
              /\ callLog[Len(callLog)].ok

C10_Witness ==
    /\ result.ok
    /\ result.of = "query_canary_blob"
    /\ Unwrap(result.value).domain = Domain
    /\ Len(callLog) = 4

\* the last request of the call and, when it is a simulation that answered,
\* the buffers it answered with
LastRequest == callLog[Len(callLog)]

Simulated ==
    /\ callLog # <<>>
    /\ LastRequest.ev = "dev_inspect"
    /\ LastRequest.ok

ReturnedBuffers == Unwrap(LastRequest.return_values)

\* C11: when the simulation of get_full_info answers with a number of buffers
\* other than 6, query_canary_blob fails with the error kind it reports
\* undecodable buffers with (Registry, as parse_address and bcs::from_bytes
\* do), not with the kind of a missing object, and returns no CanaryBlobInfo.
C11_ArityIsDecodeError ==
    (/\ Operation = "query_canary_blob"
     /\ Simulated
     /\ Len(ReturnedBuffers) # 6)
    => /\ result.done
       /\ ~result.ok
       /\ result.value = None
       /\ result.err = <<"Registry">>


\* the view function the last simulation called
InvokedFunction == LastRequest.tx.pt[1].function

\* the number of values each view function returns
ReturnArity ==
    CASE InvokedFunction = get_admin -> 1
      [] InvokedFunction = derive_canary_address_fn -> 1
      [] InvokedFunction = is_member -> 1
      [] InvokedFunction = get_member_info -> 2
      [] InvokedFunction = get_full_info -> 6

\* C12: a simulation that answers with fewer or more buffers than the invoked
\* function returns makes the query fail with a typed failure: it neither
\* panics nor returns a success value.
C12_ArityMismatchFails ==
    (/\ Operation \in QueryOperations
     /\ Simulated
     /\ Len(ReturnedBuffers) # ReturnArity)
    => /\ result.done
       /\ ~result.ok
       /\ result.err # <<"panic">>

\* C13: parse_address succeeds on every buffer of exactly 32 bytes, and the
\* address it gives has those 32 bytes in the same order; on a buffer of any
\* other length, shorter or longer, it fails with an error and gives no
\* address.
C13_AddressDecoding ==
    (result.done /\ result.of = "parse_address")
    => IF Len(loc.params.bytes) = 32
       THEN /\ result.ok
            /\ to_vec(Unwrap(result.value)) = loc.params.bytes
       ELSE /\ ~result.ok
            /\ result.value = None
            /\ result.err = <<"Registry">>

C13_Witness ==
    /\ result.done
    /\ result.of = "parse_address"
    /\ result.ok
    /\ Len(loc.params.bytes) = 32
    /\ to_vec(Unwrap(result.value)) = Buffer(32, 255)

\* a lookup the remote answered with "no such object"
NotFound(request) ==
    /\ request.ev = "get_object"
    /\ request.answered
    /\ ~request.ok

\* C14: when the remote reports that the looked-up object does not exist, at
\* the first lookup or at the lookup of get_initial_shared_version after
\* another party deleted the object, query_canary_blob and
\* derive_canary_address end in a typed failure: no panic, no success value.
C14_MissingObjectFails ==
    (/\ Operation \in {"query_canary_blob", "derive_canary_address"}
     /\ \E i \in DOMAIN callLog : NotFound(callLog[i]))
    => /\ result.done
       /\ ~result.ok
       /\ result.value = None
       /\ result.err \in {<<"CanaryBlobNotFound">>, <<"Registry">>}

\* a lookup answered with an object that is not a shared object
NotShared(request) ==
    /\ request.ev = "get_object"
    /\ request.ok
    /\ Unwrap(request.owner).kind # "Shared"

\* C15: when the object get_initial_shared_version looks up exists but is
\* owned by an address or immutable, derive_canary_address and
\* query_canary_blob return a typed failure: the operation does not abort
\* and returns no success value.
C15_NotSharedIsTypedFailure ==
    (/\ Operation \in {"query_canary_blob", "derive_canary_address"}
     /\ Len(callLog) >= 2
     /\ NotShared(callLog[2]))
    => /\ result.done
       /\ ~result.ok
       /\ result.err # <<"panic">>

\* every request of the current call was answered successfully
AllAnswered == \A i \in DOMAIN callLog : callLog[i].ok

\* C16: when the registry exists, its type descriptor parses, every remote
\* call is answered successfully and get_admin answers with one 32-byte
\* buffer, query_registry returns a RegistryInfo.
C16_QueryRegistryReturnsInfo ==
    (/\ Operation = "query_registry"
     /\ AllAnswered
     /\ Simulated
     /\ Len(ReturnedBuffers) = 1
     /\ Len(ReturnedBuffers[1]) = 32)
    => /\ result.done
       /\ result.ok
       /\ IsSome(result.value)

\* C17: when the registry exists, the signer holds a coin, every remote call
\* of join_registry is answered successfully and get_admin answers with one
\* 32-byte buffer, join_registry has submitted exactly one transaction by the
\* time it returns, and returns its response.
C17_JoinRegistrySubmits ==
    (/\ Operation = "join_registry"
     /\ result.done
     /\ holdings # <<>>
     /\ AllAnswered
     /\ \A i \in Requests("dev_inspect") :
            /\ Len(Unwrap(callLog[i].return_values)) = 1
            /\ Len(Unwrap(callLog[i].return_values)[1]) = 32)
    => /\ result.ok
       /\ Cardinality(Requests("submit")) = 1

\* a name Identifier::from_str refuses: empty, or beginning with a digit
BadName(s) == s = <<>> \/ s[1] \in Digits

\* C18: a move_call with an empty or malformed module or function name
\* returns BuildError at once: no such call is ever in the queue, and the
\* step that returns the error makes no request, starts no await and leaves
\* the queue as it was.
C18_MoveCallValidates ==
    /\ [](\A i \in DOMAIN builder :
            builder[i].kind = "MoveCall"
            => ~BadName(builder[i].module) /\ ~BadName(builder[i].function))
    /\ [][(/\ result' # result
           /\ result'.of = "move_call"
           /\ ~result'.ok)
          => /\ result'.err = <<"BuildError">>
             /\ builder' = builder
             /\ callLog' = <<>>
             /\ pc' = "idle"
             /\ ledger' = ledger]_vars

C18_Witness ==
    /\ result.of = "move_call"
    /\ result.done
    /\ ~result.ok
    /\ Len(builder) = 1
    /\ builder[1].kind = "MoveCall"

\* the signer's holdings list, where the call asked for it, named a coin
Funded == \A i \in Requests("get_coins") : callLog[i].data # <<>>

\* the sums of estimate_gas or of the 20% buffer leave u64 for a dry run's
\* answer
EstimateOverflows ==
    \E i \in Requests("dry_run") :
        /\ callLog[i].ok
        /\ \/ gas_cost(Unwrap(callLog[i].summary)).overflow
           \/ with_buffer(gas_cost(Unwrap(callLog[i].summary)).val).overflow

Running == IF stack = <<>> THEN "" ELSE stack[Len(stack)]

C21_ExecuteErrorKinds ==
    (/\ Operation = "execute"
     /\ result.done
     /\ ~result.ok)
    => /\ result.err = <<"ExecutionError">>
            <=> (\E i \in Requests("submit") : callLog[i].outcome # "executed")
       /\ Requests("submit") = {}
            => result.err \in {<<"BuildError">>, <<"InsufficientGas">>}
       /\ result.err # <<"ObjectNotFound">>

\* C22: a submit request that ends without an answer of the remote (a timeout
\* after the envelope may have been executed, or a transport error) is
\* reported as a failure of another kind than ExecutionError, the kind a
\* rejection by the remote is reported with.
C22_UnknownOutcomeIsDistinct ==
    (/\ Operation = "execute"
     /\ \E i \in Requests("submit") : callLog[i].outcome \in {"timeout", "unreachable"})
    => /\ result.done
       /\ ~result.ok
       /\ result.err # <<"ExecutionError">>

\* C23: build() reports BuildError only when it has made no request: a
\* failure of one of its requests (object lookup, holdings query, price query,
\* dry run) is reported with another kind.
C23_BuildErrorIsLocal ==
    (/\ Operation = "build"
     /\ result.done
     /\ result.err = <<"BuildError">>)
    => callLog = <<>>

\* the funding reference of the payload in hand
FundingRef == Payload.gas_payment[1]

\* the ledger has moved the funding object on since build() looked it up:
\* another client of the same signer committed a payload funded by it
FundingStale == FundingRef # object_ref(FundingRef[1], objects)

\* C24: of the payloads that name an owned funding object at one version the
\* ledger executes at most one: executing one moves the object to the next
\* version.  An execute() whose funding reference has become stale makes its
\* one submit request, changes nothing on the ledger and ends with
\* ExecutionError: it does not panic, wait or submit again.
C24_StaleFundingIsRejected ==
    /\ [](Cardinality(Requests("submit")) <= 1)
    /\ [][(pc = "submit" /\ callLog' # callLog)
          => /\ pc' = "idle"
             /\ stack' = <<>>
             /\ result'.done
             /\ Len(callLog') = Len(callLog) + 1
             /\ FundingStale
                  => /\ ledger' = ledger
                     /\ result' = Err(Operation, <<"ExecutionError">>)
             /\ ledger' # ledger
                  => /\ ~FundingStale
                     /\ objects'[FundingRef[1]].version = FundingRef[2] + 1]_vars

C24_Witness ==
    /\ Operation = "execute"
    /\ result.done
    /\ result.err = <<"ExecutionError">>
    /\ \E i \in Requests("submit") :
          /\ callLog[i].outcome = "rejected"
          /\ callLog[i].envelope.data.gas_payment[1][2]
                < objects[callLog[i].envelope.data.gas_payment[1][1]].version

\* C25: a payload build() returns while a gas object is pinned is funded by
\* an object the sender owns.
C25_PinnedGasIsOwned ==
    (/\ Operation = "build"
     /\ result.ok
     /\ IsSome(gas_object))
    => /\ Unwrap(result.value).gas_payment[1][1] = Unwrap(gas_object)
       /\ objects[Unwrap(gas_object)].owner = [kind |-> "AddressOwner", address |-> signer]

\* bcs::to_bytes(&String): the length as ULEB128 (one byte below 128), then
\* the UTF-8 bytes
bcs_to_bytes_string(string) == <<Len(string.utf8)>> \o string.utf8

\* C26: the domain is passed to the call as a pure argument in its canonical
\* serialization, the length prefix followed by the bytes of the text.
C26_DomainIsLengthPrefixed ==
    (/\ Operation = "derive_canary_address"
     /\ IsSome(loc.pt))
    => Unwrap(loc.pt)[1].arguments[2] = Pure(bcs_to_bytes_string(loc.params.domain))

\* the descriptor has a separator right behind its first segment
HasSeparator(rest) == Len(rest) >= 2 /\ rest[1] = ":" /\ rest[2] = ":"

\* the address a first segment names, if it names one
AddressOf(segment) ==
    IF \E a \in Addresses : a[1] = segment
    THEN Some((CHOOSE a \in Addresses : a[1] = segment)[2])
    ELSE None

\* C27: for a descriptor <addr>::<module>::<type>, with or without further
\* separators in a type parameter, extract_package_id_from_type gives the
\* address <addr>; for a descriptor without a separator, or whose first
\* segment is no hex literal of an address, it gives nothing and the caller
\* returns an error.
C27_ExtractPackageId ==
    (result.done /\ result.of = "extract_package_id_from_type")
    => IF HasSeparator(loc.params.rest) /\ IsSome(AddressOf(loc.params.segment))
       THEN /\ result.ok
            /\ result.value = AddressOf(loc.params.segment)
       ELSE /\ ~result.ok
            /\ result.value = None
            /\ result.err = <<"Registry">>

C27_Witness ==
    /\ result.done
    /\ result.of = "extract_package_id_from_type"
    /\ result.ok
    /\ loc.params.type_str =
          <<"0", "x", "0", "c", "a", ":", ":", "r", ":", ":", "R", "<", "0", "x", "2",
            ":", ":", "s", ":", ":", "S", ">">>
    /\ result.value = Some(<<"0", "x", "c", "a">>)

\* C28: for every cost summary a dry run reports, estimate_gas returns an
\* estimate, and the estimate is computation cost + storage cost less the
\* rebate without wrap-around: it is never above computation cost + storage
\* cost, also when the rebate is greater than that sum.
C28_EstimateWithoutWrap ==
    \A i \in Requests("dry_run") :
        callLog[i].ok =>
            LET summary == Unwrap(callLog[i].summary)
                sum == U64Add(summary.computation_cost, summary.storage_cost)
            IN  /\ IsSome(loc.estimated)
                /\ ~sum.overflow => U64Le(Estimated, sum.val)

\* the function join_registry calls
join_registry_fn ==
    <<"j", "o", "i", "n", "_", "r", "e", "g", "i", "s", "t", "r", "y">>

\* the operations of the payload the call submitted, none when it submitted
\* nothing
Submitted ==
    IF Requests("submit") = {}
    THEN <<>>
    ELSE callLog[CHOOSE i \in Requests("submit") : TRUE].envelope.data.pt

\* C29: a join_registry whose remote calls are all answered successfully
\* submits a call of member_registry::join_registry that is paid with
\* payment_amount: a coin of that amount is split off and passed as the
\* payment argument.
C29_JoinRegistryPaysAmount ==
    (/\ Operation = "join_registry"
     /\ result.done
     /\ holdings # <<>>
     /\ AllAnswered
     /\ \A i \in Requests("dev_inspect") :
            /\ Len(Unwrap(callLog[i].return_values)) = 1
            /\ Len(Unwrap(callLog[i].return_values)[1]) = 32)
    => /\ \E k \in DOMAIN Submitted :
            /\ Submitted[k].kind = "SplitCoins"
            /\ Submitted[k].amount = loc.params.payment_amount
       /\ \E k \in DOMAIN Submitted :
            /\ Submitted[k].kind = "MoveCall"
            /\ Submitted[k].function = join_registry_fn
            /\ Submitted[k].arguments[2].arg = "Result"

\* the simulations of a view function in the current call
Asked(function) ==
    {i \in Requests("dev_inspect") : callLog[i].tx.pt[1].function = function}

\* the buffers those simulations answered with
Answers(function) ==
    {Unwrap(callLog[i].return_values) : i \in {j \in Asked(function) : callLog[j].ok}}

\* an answer of get_member_info that decodes: a string, then a u64
DecodesToMemberInfo(buffers) ==
    /\ Len(buffers) = 2
    /\ IsSome(bcs_from_bytes_string(buffers[1]))
    /\ IsSome(bcs_from_bytes_u64(buffers[2]))

\* C30: query_member returns None when is_member answers false, and then has
\* not called get_member_info; it returns the MemberInfo of the decoded domain
\* and joined_at when is_member answers true and the answer of
\* get_member_info decodes; in every other case it returns an error.
C30_QueryMember ==
    (Operation = "query_member" /\ result.done)
    => CASE Answers(is_member) = {<< <<0>> >>} ->
                /\ result = Ok("query_member", None)
                /\ Asked(get_member_info) = {}
         [] /\ Answers(is_member) = {<< <<1>> >>}
            /\ \E buffers \in Answers(get_member_info) : DecodesToMemberInfo(buffers) ->
                LET buffers == CHOOSE b \in Answers(get_member_info) : TRUE
                IN  result = Ok("query_member",
                                Some([domain |-> Unwrap(bcs_from_bytes_string(buffers[1])),
                                      joined_at |-> Unwrap(bcs_from_bytes_u64(buffers[2]))]))
         [] OTHER ->
                /\ ~result.ok
                /\ result.value = None

C30_Witness ==
    /\ Operation = "query_member"
    /\ result.ok
    /\ IsSome(Unwrap(result.value))
    /\ Unwrap(Unwrap(result.value)).domain = Domain
    /\ Answers(is_member) = {<< <<1>> >>}
    /\ Cardinality(Asked(get_member_info)) = 1

(***************************************************************************)
(* keystore.rs: private keys.  The key pair, its Bech32 text, its public   *)
(* key and its address are values of the Sui SDK; a text is held as what   *)
(* bech32::decode reads from it, a public key and an address as terms of   *)
(* the key they are derived from.                                          *)
(***************************************************************************)
SignatureSchemes == {"ED25519", "Secp256k1", "Secp256r1"}

\* SignatureScheme::flag
flag(scheme) ==
    CASE scheme = "ED25519" -> 0
      [] scheme = "Secp256k1" -> 1
      [] scheme = "Secp256r1" -> 2

\* the scheme of a flag byte, of the three a key pair can have
from_flag_byte(byte) ==
    IF \E s \in SignatureSchemes : flag(s) = byte
    THEN Some(CHOOSE s \in SignatureSchemes : flag(s) = byte)
    ELSE None

SUI_PRIV_KEY_PREFIX == "suiprivkey"

\* a SuiKeyPair of a scheme
SuiKeyPair(scheme, secret) == [scheme |-> scheme, secret |-> secret]

\* the secret keys a scheme has: 32 bytes, on the secp curves not all zero
is_secret_key(scheme, bytes) ==
    /\ Len(bytes) = 32
    /\ scheme # "ED25519" => \E i \in 1..32 : bytes[i] # 0

\* SuiKeyPair::from_bytes: flag || secret key
keypair_from_bytes(bytes) ==
    IF bytes = <<>>
    THEN None
    ELSE LET scheme == from_flag_byte(bytes[1])
         IN  IF scheme = None
             THEN None
             ELSE IF ~is_secret_key(Unwrap(scheme), Tail(bytes))
             THEN None
             ELSE Some(SuiKeyPair(Unwrap(scheme), Tail(bytes)))

\* SuiKeyPair::to_bytes_no_flag
to_bytes_no_flag(keypair) == keypair.secret

\* SuiKeyPair::encode: the text `sui keytool export` prints
encode(keypair) ==
    [data |-> <<flag(keypair.scheme)>> \o to_bytes_no_flag(keypair), well_formed |-> TRUE,
     hrp |-> SUI_PRIV_KEY_PREFIX, variant |-> "Bech32"]

\* SuiKeyPair::decode: bech32::decode, the prefix and variant, from_bytes
decode(value) ==
    IF ~value.well_formed
    THEN None
    ELSE IF value.hrp # SUI_PRIV_KEY_PREFIX \/ value.variant # "Bech32"
    THEN None
    ELSE keypair_from_bytes(value.data)

\* SuiKeyPair::public
public(keypair) == [scheme |-> keypair.scheme, public_of |-> keypair.secret]

\* SuiAddress::from(&PublicKey): the hash of flag || public key
SuiAddress(public_key) == [hash_of |-> <<flag(public_key.scheme), public_key.public_of>>]

\* AccountKeystore::import(None, keypair) on a keystore, a set of key pairs
import(keystore, keypair) == keystore \cup {keypair}

\* AccountKeystore::addresses
addresses(keystore) == {SuiAddress(public(keypair)) : keypair \in keystore}

\* AccountKeystore::export
export(keystore, address) ==
    LET found == {keypair \in keystore : SuiAddress(public(keypair)) = address}
    IN  IF found = {} THEN None ELSE Some(CHOOSE keypair \in found : TRUE)

\* a parser that reads the payload whatever the prefix of the text is
parse_bech32_private_key_any_prefix(bech32_str) ==
    LET keypair == IF bech32_str.well_formed
                   THEN keypair_from_bytes(bech32_str.data)
                   ELSE None
    IN  IF keypair = None
        THEN Err("parse_bech32_private_key", <<"InvalidBech32">>)
        ELSE Ok("parse_bech32_private_key",
                [flag |-> flag(Unwrap(keypair).scheme), scheme |-> Unwrap(keypair).scheme,
                 private_key_bytes |-> to_bytes_no_flag(Unwrap(keypair))])

parse_bech32_private_key(bech32_str) ==
    LET keypair == decode(bech32_str)
    IN  IF keypair = None
        THEN Err("parse_bech32_private_key", <<"InvalidBech32">>)
        ELSE LET scheme == Unwrap(keypair).scheme
                 private_key_bytes == to_bytes_no_flag(Unwrap(keypair))
             IN  IF Len(private_key_bytes) # 32
                 THEN Err("parse_bech32_private_key", <<"InvalidKeyLength">>)
                 ELSE Ok("parse_bech32_private_key",
                         [flag |-> flag(scheme), scheme |-> scheme,
                          private_key_bytes |-> private_key_bytes])

\* a to_keypair that rebuilds every key as an Ed25519 key
to_keypair_ed25519(parsed_key) ==
    LET keypair == keypair_from_bytes(<<0>> \o parsed_key.private_key_bytes)
    IN  IF keypair = None
        THEN Err("to_keypair", <<"SuiSdkError">>)
        ELSE Ok("to_keypair", Unwrap(keypair))

\* ParsedPrivateKey::to_keypair
to_keypair(parsed_key) ==
    LET keypair == keypair_from_bytes(<<parsed_key.flag>> \o parsed_key.private_key_bytes)
    IN  IF keypair = None
        THEN Err("to_keypair", <<"SuiSdkError">>)
        ELSE Ok("to_keypair", Unwrap(keypair))

\* ParsedPrivateKey::to_address
to_address(parsed_key) ==
    LET keypair == to_keypair(parsed_key)
    IN  IF ~keypair.ok
        THEN Err("to_address", keypair.err)
        ELSE Ok("to_address", SuiAddress(public(Unwrap(keypair.value))))

\* what a call on a keystore leaves: the keystore and what it returned
add_to_keystore(keystore, parsed_key, import_ok) ==
    LET keypair == to_keypair(parsed_key)
        address == to_address(parsed_key)
    IN  IF ~keypair.ok
        THEN [returned |-> Err("add_to_keystore", keypair.err), keystore |-> keystore]
        ELSE IF ~address.ok
        THEN [returned |-> Err("add_to_keystore", address.err), keystore |-> keystore]
        ELSE IF ~import_ok
        THEN [returned |-> Err("add_to_keystore", <<"KeystoreOperation">>),
              keystore |-> keystore]
        ELSE [returned |-> Ok("add_to_keystore", Unwrap(address.value)),
              keystore |-> import(keystore, Unwrap(keypair.value))]

load_key_to_keystore(keystore, bech32_key, import_ok) ==
    LET parsed_key == parse_bech32_private_key(bech32_key)
    IN  IF ~parsed_key.ok
        THEN [returned |-> Err("load_key_to_keystore", parsed_key.err),
              keystore |-> keystore]
        ELSE LET added == add_to_keystore(keystore, Unwrap(parsed_key.value), import_ok)
             IN  [added EXCEPT !.returned.of = "load_key_to_keystore"]

\* the keystore is a new InMemKeystore, returned with the address
create_keystore_from_key(bech32_key, import_ok) ==
    LET parsed_key == parse_bech32_private_key(bech32_key)
    IN  IF ~parsed_key.ok
        THEN Err("create_keystore_from_key", parsed_key.err)
        ELSE LET address == to_address(Unwrap(parsed_key.value))
                 keypair == to_keypair(Unwrap(parsed_key.value))
             IN  IF ~address.ok
                 THEN Err("create_keystore_from_key", address.err)
                 ELSE IF ~keypair.ok
                 THEN Err("create_keystore_from_key", keypair.err)
                 ELSE IF ~import_ok
                 THEN Err("create_keystore_from_key", <<"KeystoreOperation">>)
                 ELSE Ok("create_keystore_from_key",
                         [address |-> Unwrap(address.value),
                          keystore |-> import({}, Unwrap(keypair.value))])

\* client.rs: create_sui_client(network), then create_keystore_from_key
create_client_with_key(connected, bech32_key, import_ok) ==
    IF ~connected
    THEN Err("create_client_with_key", <<"ClientCreation">>)
    ELSE LET created == create_keystore_from_key(bech32_key, import_ok)
         IN  IF ~created.ok
             THEN Err("create_client_with_key", <<"ClientCreation">>)
             ELSE Ok("create_client_with_key",
                     [signer |-> Unwrap(created.value).address,
                      keystore |-> Unwrap(created.value).keystore, client |-> "SuiClient"])

(***************************************************************************)
(* SpecKey: one call of the keystore interface on one encoded key and one  *)
(* keystore of the caller.                                                 *)
(***************************************************************************)
parse_bech32_private_key_applied ==
    /\ pc = "idle"
    /\ ~result.done
    /\ result' = parse_bech32_private_key(loc.params.bech32_key)
    /\ UNCHANGED <<ledger, builder, pins, stack, pc, loc, callLog, builds_since_add>>

\* add_to_keystore on the key parse_bech32_private_key gave the caller
add_to_keystore_applied ==
    /\ pc = "idle"
    /\ ~result.done
    /\ parse_bech32_private_key(loc.params.bech32_key).ok
    /\ \E import_ok \in BOOLEAN :
        LET parsed_key == Unwrap(parse_bech32_private_key(loc.params.bech32_key).value)
            added == add_to_keystore(loc.params.keystore, parsed_key, import_ok)
        IN  /\ loc' = [loc EXCEPT !.params.keystore = added.keystore]
            /\ result' = added.returned
    /\ UNCHANGED <<ledger, builder, pins, stack, pc, callLog, builds_since_add>>

load_key_to_keystore_applied ==
    /\ pc = "idle"
    /\ ~result.done
    /\ \E import_ok \in BOOLEAN :
        LET loaded == load_key_to_keystore(loc.params.keystore, loc.params.bech32_key,
                                           import_ok)
        IN  /\ loc' = [loc EXCEPT !.params.keystore = loaded.keystore]
            /\ result' = loaded.returned
    /\ UNCHANGED <<ledger, builder, pins, stack, pc, callLog, builds_since_add>>

create_keystore_from_key_applied ==
    /\ pc = "idle"
    /\ ~result.done
    /\ \E import_ok \in BOOLEAN :
        result' = create_keystore_from_key(loc.params.bech32_key, import_ok)
    /\ UNCHANGED <<ledger, builder, pins, stack, pc, loc, callLog, builds_since_add>>

create_client_with_key_applied ==
    /\ pc = "idle"
    /\ ~result.done
    /\ \E connected \in BOOLEAN, import_ok \in BOOLEAN :
        result' = create_client_with_key(connected, loc.params.bech32_key, import_ok)
    /\ UNCHANGED <<ledger, builder, pins, stack, pc, loc, callLog, builds_since_add>>

\* the secret keys of the key pairs that are exported
SecretKeys == {AddressBytes(1), AddressBytes(2)}

KeyPairs == {SuiKeyPair(scheme, secret) : scheme \in SignatureSchemes, secret \in SecretKeys}

\* texts that are no encoded key: no Bech32 text at all, a text with a
\* damaged checksum, another prefix, the Bech32m variant, no payload, a
\* payload one byte short or long, a flag byte of no key pair scheme, a
\* secp256k1 key of zeros
MalformedKeys ==
    { [data |-> <<>>, well_formed |-> FALSE, hrp |-> "", variant |-> "Bech32"],
      [encode(SuiKeyPair("ED25519", AddressBytes(1))) EXCEPT !.well_formed = FALSE],
      [encode(SuiKeyPair("ED25519", AddressBytes(1))) EXCEPT !.hrp = "sui"],
      [encode(SuiKeyPair("Secp256k1", AddressBytes(2))) EXCEPT !.hrp = "suiaddress"],
      [encode(SuiKeyPair("ED25519", AddressBytes(1))) EXCEPT !.variant = "Bech32m"],
      [encode(SuiKeyPair("ED25519", AddressBytes(1))) EXCEPT !.data = <<>>],
      [encode(SuiKeyPair("ED25519", AddressBytes(1))) EXCEPT !.data = <<0>> \o ShortBytes],
      [encode(SuiKeyPair("Secp256r1", AddressBytes(1))) EXCEPT
          !.data = <<2>> \o AddressBytes(1) \o <<7>>],
      [encode(SuiKeyPair("ED25519", AddressBytes(1))) EXCEPT !.data = <<3>> \o AddressBytes(1)],
      [encode(SuiKeyPair("ED25519", AddressBytes(1))) EXCEPT !.data = <<255>> \o AddressBytes(2)],
      [encode(SuiKeyPair("ED25519", AddressBytes(1))) EXCEPT
          !.data = <<1>> \o [i \in 1..32 |-> 0]] }

EncodedKeys == {encode(keypair) : keypair \in KeyPairs} \cup MalformedKeys

\* the keystores of the caller: empty, holding another key, holding two
Keystores ==
    { {},
      {SuiKeyPair("ED25519", AddressBytes(3))},
      {SuiKeyPair("ED25519", AddressBytes(1)), SuiKeyPair("Secp256k1", AddressBytes(3))} }

InitKey ==
    /\ holdings = <<>>
    /\ objects = [id \in ObjectIDs |-> NoObject]
    /\ ref_price \in Prices
    /\ builder = <<>>
    /\ gas_budget = None
    /\ gas_object = None
    /\ stack = <<>>
    /\ pc = "idle"
    /\ \E bech32_key \in EncodedKeys, keystore \in Keystores :
          loc = [CanaryLocals EXCEPT
                   !.params = [keystore |-> keystore, bech32_key |-> bech32_key]]
    /\ result = NoResult
    /\ callLog = <<>>
    /\ builds_since_add = 0

NextKey ==
    \/ parse_bech32_private_key_applied
    \/ add_to_keystore_applied
    \/ load_key_to_keystore_applied
    \/ create_keystore_from_key_applied
    \/ create_client_with_key_applied

SpecKey == InitKey /\ [][NextKey]_vars

(***************************************************************************)
(* C31..C39                                                                *)
(***************************************************************************)
\* C34: build() empties the queue before it resolves funding, price and
\* budget: during and after every build() or execute(), failed ones included,
\* the queue is empty, and a build() that follows another one with nothing
\* queued in between works on zero operations.
C34_FailedBuildLeavesQueueEmpty ==
    Operation \in {"build", "execute"}
    => /\ builder = <<>>
       /\ builds_since_add >= 2 => loc.pt = Some(<<>>)

C34_Witness ==
    /\ Operation = "build"
    /\ result.done
    /\ ~result.ok
    /\ Unwrap(loc.pt) # <<>>
    /\ builder = <<>>

\* C37: when build() estimates the budget, the estimation transaction and the
\* final payload have the same sender, funding reference and operations, the
\* estimation transaction carries the placeholder budget, and the unit price
\* of the final payload is the price the estimation transaction was given.
C37_EstimationPriceIsPayloadPrice ==
    (Built /\ IsSome(loc.temp_tx))
    => LET temp_tx == Unwrap(loc.temp_tx)
       IN  /\ temp_tx.sender = Payload.sender
           /\ temp_tx.gas_payment = Payload.gas_payment
           /\ temp_tx.pt = Payload.pt
           /\ temp_tx.gas_budget = EstimationBudget
           /\ temp_tx.gas_price = Payload.gas_price

\* C38: the pins and the queue are separate.  A step that changes a pin is a
\* set_gas_budget or a set_gas_object, changes that pin only and leaves the
\* queue as it is; a step that changes the queue (move_call, transfer_sui,
\* build, execute) and every step of a build() or execute() in progress
\* leaves both pins as they are; a pin that is set is never cleared.
C38_PinsAndQueueAreSeparate ==
    [][ /\ gas_budget' # gas_budget
            => /\ result' = Ok("set_gas_budget", "self")
               /\ IsSome(gas_budget')
               /\ gas_object' = gas_object
               /\ builder' = builder
        /\ gas_object' # gas_object
            => /\ result' = Ok("set_gas_object", "self")
               /\ IsSome(gas_object')
               /\ gas_budget' = gas_budget
               /\ builder' = builder
        /\ (builder' # builder \/ pc # "idle" \/ pc' # "idle") => pins' = pins
        /\ IsSome(gas_budget) => IsSome(gas_budget')
        /\ IsSome(gas_object) => IsSome(gas_object')
      ]_vars

C38_Witness ==
    /\ Operation = "execute"
    /\ result.ok
    /\ Unwrap(loc.pt) # <<>>
    /\ gas_budget = Some(U64Of(5000))
    /\ gas_object = Some(CoinB)

\* the requests of the current call that resolve the funding reference
FundingRequests == Requests("get_object") \cup Requests("get_coins")

\* C39: a build() with a pinned budget makes no dry run and, once it has
\* produced its payload, has asked for the reference price exactly once; a
\* build() without a pinned budget that has produced its payload has made
\* exactly one dry run.  A dry run comes after the requests that resolve the
\* funding reference, all answered, simulates the estimation transaction
\* funded by that reference, and comes before the price query the final
\* payload is made from.  The estimation transaction is never what is signed
\* or submitted.
C39_DryRunOnlyWithoutPin ==
    Operation \in {"build", "execute"}
    => LET dry == Requests("dry_run")
           prices == Requests("gas_price")
       IN  /\ Cardinality(dry) <= 1
           /\ IsSome(gas_budget) => dry = {}
           /\ Built => IF IsSome(gas_budget)
                       THEN Cardinality(prices) = 1
                       ELSE Cardinality(dry) = 1
           /\ \A i \in dry :
                /\ FundingRequests # {}
                /\ \A j \in FundingRequests : j < i /\ callLog[j].ok
                /\ callLog[i].tx = loc.temp_tx
                /\ Unwrap(callLog[i].tx).gas_payment = <<Unwrap(loc.gas_object_ref)>>
                /\ Unwrap(callLog[i].tx).gas_budget = EstimationBudget
                /\ Built => \E k \in prices : k > i /\ callLog[k].ok /\ \A n \in prices : n <= k
                /\ \A s \in Requests("sign") :
                     /\ s > i
                     /\ callLog[s].ok
                        => Unwrap(callLog[s].signature).data # Unwrap(callLog[i].tx)
                /\ \A s \in Requests("submit") :
                     /\ s > i
                     /\ callLog[s].envelope.data # Unwrap(callLog[i].tx)

\* an execute() that estimated its budget has signed and submitted
C39_Witness ==
    /\ Operation = "execute"
    /\ result.ok
    /\ gas_budget = None
    /\ Cardinality(Requests("dry_run")) = 1
    /\ Requests("submit") # {}
    /\ Unwrap(loc.pt) # <<>>

\* the argument names the object `id`, whichever way it is passed
IsObject(a, id) ==
    CASE a.arg = "SharedObject" -> a.id = id
      [] a.arg = "ImmOrOwnedObject" -> a.ref[1] = id
      [] OTHER -> FALSE

\* the argument is a pure value of these bytes
IsPure(a, bytes) == a.arg = "Pure" /\ a.bytes = bytes

\* the argument is a pure value that ends with the UTF-8 bytes of the string
IsText(a, string) ==
    /\ a.arg = "Pure"
    /\ Len(a.bytes) >= Len(string.utf8)
    /\ SubSeq(a.bytes, Len(a.bytes) - Len(string.utf8) + 1, Len(a.bytes)) = string.utf8

\* the one call each mutating helper is to queue, for the values the caller
\* of SpecHelper passes, arguments in the order of the contract's signature
QueuesItsCall(helper, pt) ==
    /\ Len(pt) = 1
    /\ pt[1].kind = "MoveCall"
    /\ LET args == pt[1].arguments
       IN  CASE helper = "store_blob" ->
                    /\ pt[1].module = pkg_storage
                    /\ pt[1].function = store_blob_fn
                    /\ Len(args) = 7
                    /\ IsObject(args[1], RegistryId)
                    /\ IsObject(args[2], AdminCapId)
                    /\ IsText(args[3], Domain)
                    /\ IsPure(args[4], to_vec(ContractBlob))
                    /\ IsPure(args[5], to_vec(ExplainBlob))
                    /\ IsPure(args[6], to_vec(StoredPackage))
                    /\ IsObject(args[7], ClockId)
             [] helper = "update_blob" ->
                    /\ pt[1].module = pkg_storage
                    /\ pt[1].function = update_blob_fn
                    /\ Len(args) = 6
                    /\ IsObject(args[1], RegistryId)
                    /\ IsObject(args[2], AdminCapId)
                    /\ IsObject(args[3], CanaryBlobId)
                    /\ IsPure(args[4], to_vec(ContractBlob))
                    /\ IsPure(args[5], to_vec(ExplainBlob))
                    /\ IsObject(args[6], ClockId)
             [] helper = "delete_canary_blob" ->
                    /\ pt[1].module = pkg_storage
                    /\ pt[1].function = delete_canary_blob_fn
                    /\ Len(args) = 3
                    /\ IsObject(args[1], RegistryId)
                    /\ IsObject(args[2], AdminCapId)
                    /\ IsObject(args[3], CanaryBlobId)
             [] helper = "join_registry" ->
                    /\ pt[1].module = member_registry
                    /\ pt[1].function = join_registry_fn
                    /\ Len(args) = 4
                    /\ IsObject(args[1], RegistryId)
                    /\ \E coin \in {CoinA, CoinB} : IsObject(args[2], coin)
                    /\ IsText(args[3], Domain)
                    /\ IsObject(args[4], ClockId)
             [] OTHER -> FALSE

MutatingHelpers == {"store_blob", "update_blob", "delete_canary_blob", "join_registry"}

\* C33: a mutating helper (store_blob, update_blob, delete_canary_blob,
\* join_registry) whose remote calls were all answered successfully has
\* queued exactly one contract call and nothing else, the call of its own
\* contract function with the arguments in the order of the signature.
C33_HelperQueuesOneCall ==
    (/\ Operation \in MutatingHelpers
     /\ result.done
     /\ holdings # <<>>
     /\ AllAnswered
     /\ \A i \in Requests("dev_inspect") :
            /\ Len(Unwrap(callLog[i].return_values)) = 1
            /\ Len(Unwrap(callLog[i].return_values)[1]) = 32)
    => /\ IsSome(loc.pt)
       /\ QueuesItsCall(Operation, Unwrap(loc.pt))

\* the payloads the current call has built: the one in its locals, if any
BuiltByCall == IF IsSome(loc.transaction_data) THEN {Unwrap(loc.transaction_data)} ELSE {}

\* C35: a join_registry whose remote calls are all answered successfully, by
\* a signer that holds a coin, has built a transaction whose payment
\* argument names an object other than the object of its gas payment.
C35_PaymentIsNotGas ==
    (/\ Operation = "join_registry"
     /\ result.done
     /\ holdings # <<>>
     /\ AllAnswered
     /\ \A i \in Requests("dev_inspect") :
            /\ Len(Unwrap(callLog[i].return_values)) = 1
            /\ Len(Unwrap(callLog[i].return_values)[1]) = 32)
    => \E tx \in BuiltByCall :
          /\ Len(tx.pt) = 1
          /\ tx.pt[1].function = join_registry_fn
          /\ tx.pt[1].arguments[2].arg = "ImmOrOwnedObject"
          /\ tx.pt[1].arguments[2].ref[1] # tx.gas_payment[1][1]

\* C36: in every call a helper queues, an argument that names the canary
\* blob or the registry passes it as a shared object, never as an owned or
\* immutable one, and an argument that names the Clock passes it as a shared
\* object read only at initial version 1.
C36_SameOwnershipClass ==
    IsSome(loc.pt)
    => \A i \in 1..Len(Unwrap(loc.pt)) :
          Unwrap(loc.pt)[i].kind = "MoveCall"
          => \A j \in 1..Len(Unwrap(loc.pt)[i].arguments) :
                LET a == Unwrap(loc.pt)[i].arguments[j]
                IN  /\ (IsObject(a, CanaryBlobId) \/ IsObject(a, RegistryId))
                        => a.arg = "SharedObject"
                    /\ IsObject(a, ClockId)
                        => /\ a.arg = "SharedObject"
                           /\ a.mutability = "Immutable"
                           /\ a.initial_shared_version = 1

\* exporting the key of `address` from the keystore gives a key pair of that
\* address and of the scheme of `keypair`
ExportsKeyOf(keystore, address, keypair) ==
    LET exported == export(keystore, address)
    IN  /\ IsSome(exported)
        /\ SuiAddress(public(Unwrap(exported))) = address
        /\ Unwrap(exported).scheme = keypair.scheme

\* C31: for the encoded text of every key pair, parse_bech32_private_key
\* succeeds and the address derived from what it returns is the address of
\* that key pair, of the same scheme; when add_to_keystore,
\* load_key_to_keystore or create_keystore_from_key succeeds on it, the
\* address returned is that address, the keystore contains it, and exporting
\* the key of that address gives a key pair of the same address and scheme.
C31_KeyRoundTrip ==
    \A keypair \in KeyPairs :
        loc.params.bech32_key = encode(keypair)
        => LET address == SuiAddress(public(keypair))
           IN  /\ result.of = "parse_bech32_private_key"
                    => /\ result.ok
                       /\ Unwrap(result.value).scheme = keypair.scheme
                       /\ to_address(Unwrap(result.value)) = Ok("to_address", address)
               /\ (result.of \in {"add_to_keystore", "load_key_to_keystore"} /\ result.ok)
                    => /\ Unwrap(result.value) = address
                       /\ address \in addresses(loc.params.keystore)
                       /\ ExportsKeyOf(loc.params.keystore, address, keypair)
               /\ (result.of = "create_keystore_from_key" /\ result.ok)
                    => /\ Unwrap(result.value).address = address
                       /\ address \in addresses(Unwrap(result.value).keystore)
                       /\ ExportsKeyOf(Unwrap(result.value).keystore, address, keypair)

\* a secp256k1 key was encoded, a keystore made from the text, the key exported
C31_Witness ==
    /\ loc.params.bech32_key = encode(SuiKeyPair("Secp256k1", AddressBytes(2)))
    /\ result.of = "create_keystore_from_key"
    /\ result.ok
    /\ export(Unwrap(result.value).keystore, Unwrap(result.value).address)
         = Some(SuiKeyPair("Secp256k1", AddressBytes(2)))

\* the texts that are the encoding of no key pair
Malformed(bech32_key) == \A keypair \in KeyPairs : bech32_key # encode(keypair)

KeystoreErrors ==
    {"InvalidBech32", "InvalidHRP", "InvalidKeyLength", "UnsupportedKeyScheme",
     "KeystoreOperation", "SuiSdkError"}

\* C32: on a text that is the encoding of no key pair every call fails and
\* returns nothing: parse_bech32_private_key, load_key_to_keystore and
\* create_keystore_from_key with one KeystoreError, create_client_with_key
\* with a ClientError; add_to_keystore cannot be called, for want of a parsed
\* key; and the caller's keystore is left as it was.
C32_MalformedKeyFails ==
    [][ Malformed(loc.params.bech32_key)
        => /\ result'.done
           /\ ~result'.ok
           /\ result'.value = None
           /\ result'.of # "add_to_keystore"
           /\ Len(result'.err) = 1
           /\ IF result'.of = "create_client_with_key"
              THEN result'.err[1] = "ClientCreation"
              ELSE result'.err[1] \in KeystoreErrors
           /\ loc'.params.keystore = loc.params.keystore
      ]_vars

\* a text with another prefix was given to create_keystore_from_key
C32_Witness ==
    /\ loc.params.bech32_key.hrp = "sui"
    /\ loc.params.bech32_key.well_formed
    /\ Len(loc.params.bech32_key.data) = 33
    /\ result.of = "create_keystore_from_key"
    /\ result.done
    /\ ~result.ok

====
